---- MODULE Spec2Model ----
(***************************************************************************)
(* Model of the motoro graphics layer: the fixed-capacity Storage staging  *)
(* buffer (src/src/vulkan/variables/storage.rs), the bindless texture      *)
(* table (variables/textures.rs, variables/sampler.rs), the texture        *)
(* manager with its reader and loader threads (src/src/textures), and the  *)
(* swapchain frame pacing of Vulkan (src/src/vulkan/mod.rs) together with  *)
(* the registered programs and cameras it recreates on resize, the shader  *)
(* files polled by Vulkan::update (vulkan/shaders.rs), the glyph atlas     *)
(* (src/src/fonts/raster.rs) and the font registry (fonts/loader.rs).      *)
(***************************************************************************)
EXTENDS Integers, Naturals, Sequences, FiniteSets, TLC

(***************************************************************************)
(* Bounds of the model                                                     *)
(***************************************************************************)
\* largest capacity n given to Storage::create
MaxCap == 2
\* push/extend calls made between two flushes
MaxOps == MaxCap + 1

\* most swapchain images a surface hands out (at least 2)
MaxImages == 3
\* distinct drawable sizes of the window
MaxExtent == 2
\* present() calls that return in one run
MaxPresents == 3
MaxLivePresents == 3
\* frames the caller runs while programs and cameras come and go
MaxRegistryPresents == 2
\* swapchain recreations in one run
MaxResizes == 2
\* registered programs, registered cameras
MaxPrograms == 2
MaxCameras == 1

\* capacity of a bindless table (max_descriptors; 256 in Textures::create,
\* scaled down here) and the distinct images a caller stores in it
MaxDescriptors == 2
MaxTextures == MaxDescriptors + 1

\* load jobs dispatched in one run
MaxJobs == 3
\* load jobs dispatched in a run in which the threads are scheduled fairly
MaxLiveJobs == 3
\* writes to shader files while the program runs
MaxWrites == 3
\* side of the square glyph atlas in pixels (512 * resolution_scale in the
\* code) and longest alphabet rasterized
AtlasSize == 8
MaxAlphabet == 4
\* fonts in the registry, the built-in one included
MaxFonts == 2
MaxLayouts == 2
MaxDropJobs == 3
\* 2^24: an f32 holds 24 significant bits
F32Precision == 16777216

DefaultValue == 0
\* two distinguishable element values a caller pushes, both different from
\* T::default()
Values == {1, 2}

Min(a, b) == IF a < b THEN a ELSE b

\* const FRAMES_PROCESSING_CONCURRENCY: usize = 2
FRAMES_PROCESSING_CONCURRENCY == 2
\* vk::Fence::null(), vk::CommandBuffer::null(), Option::None of an image index
NullFence == -1
NullCommands == -1
NoImage == -1
\* Camera::create: screen = [0.0; 2]
ZeroScreen == 0
ImageCounts == 2..MaxImages
Extents == 1..MaxExtent

VARIABLES
    \* ---- Storage<T> (storage.rs) ----
    collection,     \* Storage.collection: host staging array, 1-based here
    cursor,         \* Storage.cursor
    buffers,        \* Storage.buffers: contents of the GPU buffer of each frame
    ret,            \* [op, value]: the last Storage call and what it returned
    ops,            \* the push/extend calls made since the last flush: what each
                    \* stored (arg, empty when rejected) and returned (value)
    taken,          \* what the last take_and_update returned, -1 before the first
    storage_pc,     \* "ok", or "panicked" after an out-of-bounds index
    \* ---- Vulkan (vulkan/mod.rs) ----
    pc,             \* position of the main thread in prepare()/present()
    frame,          \* Sync.frame: the frame slot
    chain,          \* Vulkan.chain: the swapchain image index being rendered
    need_resize,    \* Vulkan.need_resize
    images,         \* Sync.images: image index -> fence (or NullFence)
    signaled,       \* state of Sync.fences[k]
    pending,        \* queue submissions the GPU has not completed yet
    swapchain,      \* Vulkan.swapchain: [extent, images, handle]
    render_pass,    \* Vulkan.render_pass (the swapchain handle it was built for)
    framebuffers,   \* Vulkan.framebuffers: [render_pass, len]
    command_buffers,\* length of Vulkan.command_buffers and command_pools
    programs,       \* the registered programs
    cameras,        \* the registered cameras
    recording,      \* a render pass is begun on command_buffers[chain]
    recorded,       \* <<program, copy>> pairs bound in the current command buffer
    next_image,     \* the index acquire_next_image_khr returned
    result,         \* the last result of acquire_next_image_khr
    acquired,       \* what the last acquire_next_image call returned
    presents,       \* number of present() calls that have returned
    submitted       \* image indices of the current swapchain submitted so far

VARIABLES
    \* ---- Textures / Sampler2D (variables/textures.rs, variables/sampler.rs) ----
    table_textures, \* Textures.textures: the registered textures, slot i at i + 1
    table_writes,   \* the descriptor writes issued: [element, view, sampler]
    table_pc,       \* "ok", or "panicked" after a store on a full table
    stored,         \* every store call that returned: [image, sampler, index]
    store_ret       \* the last store call: [image, sampler, index, wrote]

tableVars == <<table_textures, table_writes, table_pc, stored, store_ret>>

VARIABLES
    \* ---- TexturesManager and its threads (textures/loader.rs, reader.rs) ----
    records,        \* TexturesManager.records: path -> [current, loading]
    readers,        \* the channel of each reader thread: <<[path, handle], ...>>
    readers_index,  \* TexturesManager.readers_index
    requests,       \* the channel of the loader thread: <<[path, handle], ...>>
    responses,      \* the channel back to the manager: <<[path, handle], ...>>
    loader_job,     \* the request the loader thread is uploading, or NoJob
    next_handle,    \* the handles create_texture_handle has made so far
    main_pc,        \* "idle", "update" (draining) or "create_texture"
    queue_users,    \* the threads inside a submission to the loading queue
    reads,          \* path -> number of read jobs sent to a reader
    jobs,           \* number of load jobs dispatched
    failed,         \* paths whose read or decode error was logged
    loaded,         \* path -> the handle of its last drained completion
    got,            \* the last get_texture call: [path, texture]
    dyn_ret,        \* how the last update_dynamic_texture call ended
    created,        \* path -> number of handles the loader created for it
    reader_pc,      \* reader id -> "running", or "stopped" once its loop is left
    loader_pc,      \* "running", or "stopped" once the loader left its loop
    dynamic_paths   \* the paths create_dynamic_texture calls have returned,
                    \* recorded where a property is about them

loaderVars == <<records, readers, readers_index, requests, responses, loader_job,
                next_handle, main_pc, queue_users, reads, jobs, failed, loaded,
                got, dyn_ret, created, reader_pc, loader_pc, dynamic_paths>>

assetVars == <<tableVars, loaderVars>>

VARIABLES
    \* ---- Shader files and hot reload (vulkan/shaders.rs, Vulkan::update) ----
    modified,       \* shader file -> its modification time in the file system
    fs_clock,       \* the time of the last write to a shader file
    debug_assertions, \* the build has cfg(debug_assertions)
    rebuilt,        \* the programs the last update() call recreated
    \* ---- rasterize_font_to_image_file (fonts/raster.rs) ----
    glyphs,         \* char -> [width, height, ymin]: what font.rasterize gives
    alphabet,       \* the alphabet argument, a sequence of chars
    charset,        \* Font.charset of the returned font: char -> [x, y, w, h]
    raster_pc,      \* "idle", "returned", or "panicked" on an index out of bounds
    \* ---- FontLoader (fonts/loader.rs) ----
    registry,       \* FontLoader.registry, index i at i + 1
    matched         \* the last match_font call: its arguments and its index

VARIABLES
    \* ---- Uniform<T> and Storage::layout (variables/uniform.rs, storage.rs) ----
    descriptors,    \* Variable.descriptors of the last Storage::layout call:
                    \* frame -> the storage buffer bound, empty before the first
    sets,           \* Uniform.sets: frame -> the uniform buffer bound
    uniform_buffers,\* Uniform.buffers: contents of the uniform buffer of each frame
    descriptor_writes \* update_descriptor_sets calls issued: [uniform, storage]

variableVars == <<descriptors, sets, uniform_buffers, descriptor_writes>>

reloadVars == <<modified, fs_clock, debug_assertions, rebuilt>>

rasterVars == <<glyphs, alphabet, charset, raster_pc>>

fontVars == <<registry, matched>>

hostVars == <<reloadVars, rasterVars, fontVars, variableVars>>

storageVars == <<collection, cursor, buffers, ret, ops, taken, storage_pc>>

frameVars == <<pc, frame, chain, need_resize, images, signaled, pending, swapchain,
               render_pass, framebuffers, command_buffers, programs, cameras,
               recording, recorded, next_image, result, acquired, presents,
               submitted>>

vars == <<collection, cursor, buffers, ret, ops, taken, storage_pc,
          pc, frame, chain, need_resize, images, signaled, pending, swapchain,
          render_pass, framebuffers, command_buffers, programs, cameras,
          recording, recorded, next_image, result, acquired, presents,
          submitted, assetVars, hostVars>>

(***************************************************************************)
(* Storage<T>                                                              *)
(***************************************************************************)
\* Storage::create: collection = vec![T::default(); n], cursor = 0,
\* one buffer per swapchain image (frames = vulkan.swapchain.images.len())
StorageCreate(n) ==
    /\ collection = [i \in 1..n |-> DefaultValue]
    /\ cursor = 0
    /\ buffers = [f \in 0..(swapchain.images - 1) |-> [i \in 1..n |-> DefaultValue]]
    /\ ret = [op |-> "create", value |-> 0]
    /\ ops = <<>>
    /\ taken = -1
    /\ storage_pc = "ok"

PushFullOffByOne(c, len) == c > len
\* the capacity test of push: self.cursor >= self.collection.len()
PushFull(c, len) == c >= len

PushReturnCursor(c) == c
\* the value push returns after the increment: (self.cursor - 1) as u32
PushReturn(c) == c - 1

\* Storage::push
Push(value) ==
    /\ storage_pc = "ok"
    /\ Len(ops) < MaxOps
    /\ IF PushFull(cursor, Len(collection))
       THEN \* error!(...); return 0
            /\ ret' = [op |-> "push", value |-> 0]
            /\ ops' = Append(ops, [op |-> "push", count |-> 1, arg |-> <<>>,
                                   stored |-> FALSE, value |-> 0])
            /\ UNCHANGED <<collection, cursor, buffers, taken, storage_pc>>
       ELSE IF cursor + 1 > Len(collection)
            THEN \* self.collection[self.cursor] is out of bounds: panic
                 /\ storage_pc' = "panicked"
                 /\ ret' = [op |-> "push", value |-> -1]
                 /\ ops' = Append(ops, [op |-> "push", count |-> 1, arg |-> <<>>,
                                        stored |-> FALSE, value |-> -1])
                 /\ UNCHANGED <<collection, cursor, buffers, taken>>
            ELSE /\ collection' = [collection EXCEPT ![cursor + 1] = value]
                 /\ cursor' = cursor + 1
                 /\ ret' = [op |-> "push", value |-> PushReturn(cursor + 1)]
                 /\ ops' = Append(ops, [op |-> "push", count |-> 1,
                                        arg |-> <<value>>, stored |-> TRUE,
                                        value |-> PushReturn(cursor + 1)])
                 /\ UNCHANGED <<buffers, taken, storage_pc>>

ExtendFullLate(c, count, len) == c + count > len + 1
\* the capacity test of extend: self.cursor + count >= self.collection.len()
ExtendFull(c, count, len) == c + count >= len

\* Storage::extend
Extend(values) ==
    /\ storage_pc = "ok"
    /\ Len(ops) < MaxOps
    /\ LET count == Len(values) IN
       IF ExtendFull(cursor, count, Len(collection))
       THEN \* error!(...); return 0
            /\ ret' = [op |-> "extend", value |-> 0]
            /\ ops' = Append(ops, [op |-> "extend", count |-> count, arg |-> <<>>,
                                   stored |-> FALSE, value |-> 0])
            /\ UNCHANGED <<collection, cursor, buffers, taken, storage_pc>>
       ELSE IF cursor + count > Len(collection)
            THEN \* the slice cursor..cursor+count is out of bounds: panic
                 /\ storage_pc' = "panicked"
                 /\ ret' = [op |-> "extend", value |-> -1]
                 /\ ops' = Append(ops, [op |-> "extend", count |-> count, arg |-> <<>>,
                                        stored |-> FALSE, value |-> -1])
                 /\ UNCHANGED <<collection, cursor, buffers, taken>>
            ELSE /\ collection' = [i \in 1..Len(collection) |->
                                     IF i > cursor /\ i <= cursor + count
                                     THEN values[i - cursor]
                                     ELSE collection[i]]
                 /\ cursor' = cursor + count
                 /\ ret' = [op |-> "extend", value |-> (cursor + count) - count]
                 /\ ops' = Append(ops, [op |-> "extend", count |-> count,
                                        arg |-> values, stored |-> TRUE,
                                        value |-> (cursor + count) - count])
                 /\ UNCHANGED <<buffers, taken, storage_pc>>

CursorAfterTakeKept(c) == c
\* take_and_update: self.cursor = 0
CursorAfterTake(c) == 0

UpdateFromAll(bufs, f, value) == [g \in DOMAIN bufs |-> value]
\* Storage::update_from: copies the whole slice into the buffer of frame f
UpdateFrom(bufs, f, value) == [bufs EXCEPT ![f] = value]

\* Storage::take_and_update
TakeAndUpdate(f) ==
    /\ storage_pc = "ok"
    /\ cursor' = CursorAfterTake(cursor)
    /\ buffers' = UpdateFrom(buffers, f, collection)
    /\ ret' = [op |-> "take_and_update", value |-> cursor]
    /\ taken' = cursor
    /\ ops' = <<>>
    /\ UNCHANGED <<collection, storage_pc>>

\* the slices a caller hands to extend
ExtendArgs == {<<>>} \cup {<<v>> : v \in Values} \cup {<<v, w>> : v \in Values, w \in Values}

StoragePush == (\E v \in Values : Push(v)) /\ UNCHANGED <<frameVars, assetVars, hostVars>>
StorageExtend == (\E vs \in ExtendArgs : Extend(vs)) /\ UNCHANGED <<frameVars, assetVars, hostVars>>
StorageTake == (\E k \in DOMAIN buffers : TakeAndUpdate(k)) /\ UNCHANGED <<frameVars, assetVars, hostVars>>

(***************************************************************************)
(* Textures / Sampler2D: the bindless texture table                        *)
(***************************************************************************)
\* the textures a caller owns: create_image makes one view per image
TextureHandles == {[image |-> i, view |-> i] : i \in 1..MaxTextures}
\* the vk::Sampler handles a caller passes
SamplerHandles == {1, 2}

\* Textures::create / Sampler2D::create: textures = vec![]
TexturesCreate ==
    /\ table_textures = <<>>
    /\ table_writes = <<>>
    /\ table_pc = "ok"
    /\ stored = {}
    /\ store_ret = [image |-> 0, sampler |-> 0, index |-> -1, wrote |-> FALSE]

SameTextureNever(record, texture) == FALSE
\* the predicate of the scan: record.image == texture.image
SameTexture(record, texture) == record.image = texture.image

\* self.textures.iter().position(..): the first matching slot, -1 for None
Position(textures, texture) ==
    IF \E i \in DOMAIN textures : SameTexture(textures[i], texture)
    THEN (CHOOSE i \in DOMAIN textures :
             /\ SameTexture(textures[i], texture)
             /\ \A j \in 1..(i - 1) : ~SameTexture(textures[j], texture)) - 1
    ELSE -1

NextIndexZero(textures) == 0
\* the slot of a new texture: self.textures.len() as u32
NextIndex(textures) == Len(textures)

TableFullLate(index) == index = MaxDescriptors + 1
\* the capacity test: index == self.max_descriptors
TableFull(index) == index = MaxDescriptors

\* Textures::store and Sampler2D::store (the same code)
Store(texture, sampler) ==
    /\ table_pc = "ok"
    /\ LET found == Position(table_textures, texture) IN
       IF found = -1
       THEN LET index == NextIndex(table_textures) IN
            IF TableFull(index)
            THEN \* panic!("unable to store texture, all variables are used up")
                 /\ table_pc' = "panicked"
                 /\ store_ret' = [image |-> texture.image, sampler |-> sampler,
                                  index |-> -1, wrote |-> FALSE]
                 /\ UNCHANGED <<table_textures, table_writes, stored>>
            ELSE /\ table_writes' = Append(table_writes,
                        [element |-> index, view |-> texture.view,
                         sampler |-> sampler])
                 /\ table_textures' = Append(table_textures, texture)
                 /\ stored' = stored \cup {[image |-> texture.image,
                                            sampler |-> sampler, index |-> index]}
                 /\ store_ret' = [image |-> texture.image, sampler |-> sampler,
                                  index |-> index, wrote |-> TRUE]
                 /\ UNCHANGED table_pc
       ELSE /\ stored' = stored \cup {[image |-> texture.image,
                                       sampler |-> sampler, index |-> found]}
            /\ store_ret' = [image |-> texture.image, sampler |-> sampler,
                             index |-> found, wrote |-> FALSE]
            /\ UNCHANGED <<table_textures, table_writes, table_pc>>

TableStore ==
    /\ \E t \in TextureHandles, s \in SamplerHandles : Store(t, s)
    /\ UNCHANGED <<storageVars, frameVars, loaderVars, hostVars>>

(***************************************************************************)
(* TexturesManager, the reader threads and the loader thread               *)
(***************************************************************************)
\* the fallback texture made in TexturesManager::new; the loader thread
\* receives it as `null`
Fallback == 0
\* Option::None of TextureRecord.loading
NoTexture == -1
\* the loader thread waits in requests.iter()
NoJob == [path |-> [memory |-> FALSE, n |-> 0], handle |-> NoTexture]
\* for id in 0..2: the reader threads
ReaderIds == {0, 1}

\* a path string: "memory:<n>" or the name of file n
\* the files a caller asks for
FileNames == {1, 2, 3}
FilePaths == {[memory |-> FALSE, n |-> i] : i \in FileNames}
\* the "memory:<n>" names in use
MemoryNames == {0, 1}
MemoryPaths == {[memory |-> TRUE, n |-> i] : i \in MemoryNames}
Paths == FilePaths \cup MemoryPaths

\* path.starts_with("memory:")
StartsWithMemory(path) == path.memory
\* format!("memory:{}", self.records.len())
DynamicPath(recs) == [memory |-> TRUE, n |-> Cardinality(DOMAIN recs)]

\* TexturesManager::new: no records, two readers, readers_index = len - 1
TexturesManagerNew ==
    /\ records = <<>>
    /\ readers = [id \in ReaderIds |-> <<>>]
    /\ readers_index = Cardinality(ReaderIds) - 1
    /\ requests = <<>>
    /\ responses = <<>>
    /\ loader_job = NoJob
    /\ next_handle = 0
    /\ main_pc = "idle"
    /\ queue_users = {}
    /\ reads = [p \in Paths |-> 0]
    /\ jobs = 0
    /\ failed = {}
    /\ loaded = [p \in Paths |-> NoTexture]
    /\ got = [path |-> [memory |-> FALSE, n |-> 0], texture |-> NoTexture]
    /\ dyn_ret = "none"
    /\ created = [p \in Paths |-> 0]
    /\ reader_pc = [id \in ReaderIds |-> "running"]
    /\ loader_pc = "running"
    /\ dynamic_paths = {}

\* take(&mut record.loading): the record is left with loading = None
TakeLoading(record) == [record EXCEPT !.loading = NoTexture]

\* TextureRecord { current: self.fallback, loading: Some(self.fallback) }
NewRecord == [current |-> Fallback, loading |-> Fallback]

InsertResetsAll(recs, path, record) == [p \in DOMAIN recs \cup {path} |-> record]
\* records.insert(path, record) / entry(path).or_insert_with(..)
Insert(recs, path, record) ==
    [p \in DOMAIN recs \cup {path} |-> IF p = path THEN record ELSE recs[p]]

\* the jobs of path p that are queued to a reader, queued to the loader,
\* being uploaded or waiting as an undrained completion
CountIn(queue, p) == Cardinality({i \in DOMAIN queue : queue[i].path = p})
Outstanding(p) ==
    CountIn(readers[0], p) + CountIn(readers[1], p) + CountIn(requests, p)
    + CountIn(responses, p) + (IF loader_job.path = p /\ loader_job # NoJob THEN 1 ELSE 0)

LoadingInProgressNever(record) == FALSE
\* take(&mut record.loading) gives None: a load of the path is in flight
LoadingInProgress(record) == record.loading = NoTexture

\* TexturesManager::update_dynamic_texture on the map recs
UpdateDynamic(recs, path) ==
    IF path \notin DOMAIN recs
    THEN \* error!("... record not found"); return
         /\ records' = recs
         /\ dyn_ret' = "no_record"
         /\ UNCHANGED <<requests, jobs>>
    ELSE IF LoadingInProgress(recs[path])
         THEN \* error!("... loading in progress"); return
              /\ records' = recs
              /\ dyn_ret' = "in_progress"
              /\ UNCHANGED <<requests, jobs>>
         ELSE \* take(&mut record.loading); self.loader.send(Load(path, handle, ..))
              /\ jobs < MaxJobs
              /\ records' = [recs EXCEPT ![path] = TakeLoading(@)]
              /\ requests' = Append(requests,
                                    [path |-> path, handle |-> recs[path].loading])
              /\ jobs' = jobs + 1
              /\ dyn_ret' = "sent"

\* TexturesManager::update_dynamic_texture
UpdateDynamicTexture(path) ==
    /\ main_pc = "idle"
    /\ UpdateDynamic(records, path)
    /\ UNCHANGED <<readers, readers_index, responses, loader_job, next_handle,
                   main_pc, queue_users, reads, failed, loaded, got>>
    /\ UNCHANGED created
    /\ UNCHANGED <<reader_pc, loader_pc, dynamic_paths>>
    /\ UNCHANGED <<storageVars, frameVars, tableVars, hostVars>>

\* TexturesManager::create_dynamic_texture, the path it returns not recorded
CreateDynamicCall ==
    /\ main_pc = "idle"
    /\ DynamicPath(records) \in MemoryPaths
    /\ LET path == DynamicPath(records) IN
       UpdateDynamic(Insert(records, path, NewRecord), path)
    /\ UNCHANGED <<readers, readers_index, responses, loader_job, next_handle,
                   main_pc, queue_users, reads, failed, loaded, got>>
    /\ UNCHANGED created
    /\ UNCHANGED <<reader_pc, loader_pc>>
    /\ UNCHANGED <<storageVars, frameVars, tableVars, hostVars>>

NextReaderSame(index) == index
\* (self.readers_index + 1) % self.readers.len()
NextReader(index) == (index + 1) % Cardinality(ReaderIds)

NeedsLoadAlways(path, record) == ~StartsWithMemory(path)
\* !path.starts_with("memory:") && record.current == self.fallback
NeedsLoad(path, record) == ~StartsWithMemory(path) /\ record.current = Fallback

\* TexturesManager::get_texture, for a path other than the two reserved names
GetTexture(path) ==
    /\ main_pc = "idle"
    /\ LET recs == IF path \in DOMAIN records THEN records
                   ELSE Insert(records, path, NewRecord)
           record == recs[path]
       IN  /\ IF NeedsLoad(path, record) /\ record.loading # NoTexture
              THEN LET index == NextReader(readers_index) IN
                   /\ jobs < MaxJobs
                   /\ readers_index' = index
                   /\ readers' = [readers EXCEPT ![index] =
                          Append(@, [path |-> path, handle |-> record.loading])]
                   /\ records' = [recs EXCEPT ![path] = TakeLoading(@)]
                   /\ reads' = [reads EXCEPT ![path] = @ + 1]
                   /\ jobs' = jobs + 1
              ELSE /\ records' = recs
                   /\ UNCHANGED <<readers, readers_index, reads, jobs>>
           /\ got' = [path |-> path, texture |-> record.current]
    /\ UNCHANGED <<requests, responses, loader_job, next_handle, main_pc,
                   queue_users, failed, loaded>>
    /\ UNCHANGED <<dyn_ret, created>>
    /\ UNCHANGED <<reader_pc, loader_pc, dynamic_paths>>
    /\ UNCHANGED <<storageVars, frameVars, tableVars, hostVars>>

\* TexturesManager::update: the drain starts (self.responses.try_iter())
UpdateBegin ==
    /\ main_pc = "idle"
    /\ main_pc' = "update"
    /\ UNCHANGED <<records, readers, readers_index, requests, responses,
                   loader_job, next_handle, queue_users, reads, jobs, failed,
                   loaded, got>>
    /\ UNCHANGED <<dyn_ret, created>>
    /\ UNCHANGED <<reader_pc, loader_pc, dynamic_paths>>
    /\ UNCHANGED <<storageVars, frameVars, tableVars, hostVars>>

SwapLoadingNew(record, handle) == [current |-> handle, loading |-> handle]
SwapDropPrevious(record, handle) == [current |-> handle, loading |-> Fallback]
SwapKeepLoading(record, handle) == [record EXCEPT !.current = handle]
\* record.loading = Some(record.current); record.current = handle
Swap(record, handle) == [current |-> handle, loading |-> record.current]

\* TexturesManager::update: one turn of the try_iter loop
UpdateNext ==
    /\ main_pc = "update"
    /\ IF responses = <<>>
       THEN \* try_iter ends: update returns
            /\ main_pc' = "idle"
            /\ UNCHANGED <<records, responses, loaded>>
       ELSE LET response == Head(responses) IN
            /\ responses' = Tail(responses)
            /\ IF response.path \in DOMAIN records
               THEN /\ records' = [records EXCEPT ![response.path] =
                                      Swap(@, response.handle)]
                    /\ loaded' = [loaded EXCEPT ![response.path] = response.handle]
               ELSE \* error!("... record not found"); continue
                    UNCHANGED <<records, loaded>>
            /\ UNCHANGED main_pc
    /\ UNCHANGED <<readers, readers_index, requests, loader_job, next_handle,
                   queue_users, reads, jobs, failed, got>>
    /\ UNCHANGED <<dyn_ret, created>>
    /\ UNCHANGED <<reader_pc, loader_pc, dynamic_paths>>
    /\ UNCHANGED <<storageVars, frameVars, tableVars, hostVars>>

\* TexturesManager::create_texture on the main thread: the upload through
\* the manager's clone of the loader device begins ...
CreateTextureBegin ==
    /\ main_pc = "idle"
    /\ main_pc' = "create_texture"
    /\ queue_users' = queue_users \cup {"main"}
    /\ UNCHANGED <<records, readers, readers_index, requests, responses,
                   loader_job, next_handle, reads, jobs, failed, loaded, got>>
    /\ UNCHANGED <<dyn_ret, created>>
    /\ UNCHANGED <<reader_pc, loader_pc, dynamic_paths>>
    /\ UNCHANGED <<storageVars, frameVars, tableVars, hostVars>>

\* ... and returns after its last queue_wait_idle
CreateTextureEnd ==
    /\ main_pc = "create_texture"
    /\ main_pc' = "idle"
    /\ queue_users' = queue_users \ {"main"}
    /\ UNCHANGED <<records, readers, readers_index, requests, responses,
                   loader_job, next_handle, reads, jobs, failed, loaded, got>>
    /\ UNCHANGED <<dyn_ret, created>>
    /\ UNCHANGED <<reader_pc, loader_pc, dynamic_paths>>
    /\ UNCHANGED <<storageVars, frameVars, tableVars, hostVars>>

\* fs::read and read_texture_from_data of a job: Ok or Err
ReadResults == {"ok", "error"}

ReaderRetries(queue, outcome) == IF outcome = "ok" THEN Tail(queue) ELSE queue
\* for (path, handle) in files.iter(): the job leaves the channel either way
ReaderTakes(queue, outcome) == Tail(queue)

FailedSendContinues(thread_pc) == thread_pc
\* if let Err(error) = sender.send(..) { error!(..); break }: the loop is left
FailedSend(thread_pc) == "stopped"

\* handle_reader_thread: one turn of the loop of reader id. files.iter()
\* ends when the channel is empty and its sender was dropped; a failed send
\* to the loader (its receiver is gone) breaks out of the loop
Reader(id) ==
    /\ reader_pc[id] = "running"
    /\ IF readers[id] = <<>>
       THEN \* files.iter() gives None: info!("Stops texture reader")
            /\ main_pc = "dropped"
            /\ reader_pc' = [reader_pc EXCEPT ![id] = "stopped"]
            /\ UNCHANGED <<readers, requests, failed>>
       ELSE \E outcome \in ReadResults :
               LET job == Head(readers[id]) IN
               /\ readers' = [readers EXCEPT ![id] = ReaderTakes(@, outcome)]
               /\ IF outcome = "ok"
                  THEN IF loader_pc = "stopped"
                       THEN \* loader.send(..) is Err: error!(...); break
                            /\ reader_pc' = [reader_pc EXCEPT ![id] = FailedSend(@)]
                            /\ UNCHANGED <<requests, failed>>
                       ELSE \* loader.send(Load(path, handle, width, height, data))
                            /\ requests' = Append(requests, job)
                            /\ UNCHANGED <<failed, reader_pc>>
                  ELSE \* error!(...); continue
                       /\ failed' = failed \cup {job.path}
                       /\ UNCHANGED <<requests, reader_pc>>
    /\ UNCHANGED <<records, readers_index, responses, loader_job, next_handle,
                   main_pc, queue_users, reads, jobs, loaded, got>>
    /\ UNCHANGED <<dyn_ret, created>>
    /\ UNCHANGED <<loader_pc, dynamic_paths>>
    /\ UNCHANGED <<storageVars, frameVars, tableVars, hostVars>>

RequestSendersHeld == FALSE
\* every Sender of the loader's channel is dropped: the manager's and the
\* clone each reader thread owns until it returns
RequestSendersDropped ==
    main_pc = "dropped" /\ \A id \in ReaderIds : reader_pc[id] = "stopped"

\* handle_loader_thread: a request is received and its upload begins
LoaderBegin ==
    /\ loader_pc = "running"
    /\ loader_job = NoJob
    /\ IF requests = <<>>
       THEN \* requests.iter() gives None: the thread returns
            /\ RequestSendersDropped
            /\ loader_pc' = "stopped"
            /\ UNCHANGED <<loader_job, requests, queue_users>>
       ELSE /\ loader_job' = Head(requests)
            /\ requests' = Tail(requests)
            /\ queue_users' = queue_users \cup {"loader"}
            /\ UNCHANGED loader_pc
    /\ UNCHANGED <<records, readers, readers_index, responses, next_handle,
                   main_pc, reads, jobs, failed, loaded, got>>
    /\ UNCHANGED <<dyn_ret, created>>
    /\ UNCHANGED <<reader_pc, dynamic_paths>>
    /\ UNCHANGED <<storageVars, frameVars, tableVars, hostVars>>

LoaderHandleGiven(job, made) == job.handle
\* if handle == null { handle = device.create_texture_handle(width, height) }
LoaderHandle(job, made) == IF job.handle = Fallback THEN made + 1 ELSE job.handle

\* handle_loader_thread: if handle == null a handle is created, the data is
\* uploaded into it and Loaded(path, handle) is sent; the send fails when
\* the manager, which owns the receiver, was dropped
LoaderEnd ==
    /\ loader_job # NoJob
    /\ LET handle == LoaderHandle(loader_job, next_handle)
       IN  /\ next_handle' = IF loader_job.handle = Fallback
                             THEN next_handle + 1 ELSE next_handle
           /\ created' = IF loader_job.handle = Fallback
                         THEN [created EXCEPT ![loader_job.path] = @ + 1]
                         ELSE created
           /\ IF main_pc = "dropped"
              THEN \* manager.send(response) is Err: error!(...); break
                   /\ loader_pc' = FailedSend(loader_pc)
                   /\ UNCHANGED responses
              ELSE /\ responses' = Append(responses,
                                          [path |-> loader_job.path,
                                           handle |-> handle])
                   /\ UNCHANGED loader_pc
    /\ loader_job' = NoJob
    /\ queue_users' = queue_users \ {"loader"}
    /\ UNCHANGED <<records, readers, readers_index, requests, main_pc, reads,
                   jobs, failed, loaded, got>>
    /\ UNCHANGED dyn_ret
    /\ UNCHANGED <<reader_pc, dynamic_paths>>
    /\ UNCHANGED <<storageVars, frameVars, tableVars, hostVars>>

\* the TexturesManager is dropped between two calls: the readers' senders,
\* the manager's loader sender and the responses receiver go with it
DropManager ==
    /\ main_pc = "idle"
    /\ main_pc' = "dropped"
    /\ UNCHANGED <<records, readers, readers_index, requests, responses,
                   loader_job, next_handle, queue_users, reads, jobs, failed,
                   loaded, got, dyn_ret, created>>
    /\ UNCHANGED <<reader_pc, loader_pc, dynamic_paths>>
    /\ UNCHANGED <<storageVars, frameVars, tableVars, hostVars>>

\* TexturesManager::create_dynamic_texture
CreateDynamicTexture == CreateDynamicCall /\ UNCHANGED dynamic_paths

\* TexturesManager::create_dynamic_texture, the path it returns recorded
CreateDynamicTextureReturning ==
    /\ CreateDynamicCall
    /\ dynamic_paths' = dynamic_paths \cup {DynamicPath(records)}

ManagerGetTexture == \E path \in Paths : GetTexture(path)
ManagerUpdateDynamicTexture == \E path \in Paths : UpdateDynamicTexture(path)
ReaderThread == \E id \in ReaderIds : Reader(id)

(***************************************************************************)
(* Fonts: the glyph atlas of a font and the registry of loaded fonts       *)
(***************************************************************************)
\* the characters of an alphabet; MissingChar is MISSING_CHAR
Chars == {0, 1, 2}
MissingChar == 0

\* line_metrics of the font at the requested size: new_line_size.ceil() and
\* descent.ceil()
LineHeight == 3
Descent == -1
\* let baseline = line_height + line_metrics.descent.ceil()
Baseline == LineHeight + Descent

\* what font.rasterize(char, size) can give for a character: an empty glyph
\* (a space), a narrow one, a wide one with a descender, one higher than the
\* line and one that rises above the baseline room
GlyphKinds ==
    {[width |-> 0, height |-> 0, ymin |-> 0],
     [width |-> 2, height |-> 2, ymin |-> 0],
     [width |-> 3, height |-> 3, ymin |-> -1],
     [width |-> 2, height |-> 4, ymin |-> -1],
     [width |-> 2, height |-> 3, ymin |-> 0]}

RECURSIVE Pow2From(_, _)
Pow2From(p, value) == IF p >= value THEN p ELSE Pow2From(2 * p, value)

\* round_up_pow_2: the smallest power of two that is at least value
round_up_pow_2(value) == IF value = 0 THEN 1 ELSE Pow2From(1, value)

\* let step_y = round_up_pow_2(line_height as usize)
StepY == round_up_pow_2(LineHeight)

\* glyph.height > line_height, or glyph.height + glyph.ymin > baseline:
\* the glyph is logged and skipped
FailsHeightChecks(glyph) ==
    \/ glyph.height > LineHeight
    \/ glyph.height + glyph.ymin > Baseline

\* the bitmap of the glyph placed at (ox, oy) is written into data, a
\* vector of w * h * 4 bytes: the write of the last pixel is out of bounds
\* when its row is not in the atlas
WritesOutOfBounds(glyph, ox, oy) ==
    LET glyph_offset == Baseline - (glyph.height + glyph.ymin)
        y == oy + (glyph.height - 1) + glyph_offset
        x == ox + (glyph.width - 1)
    IN  /\ glyph.width * glyph.height > 0
        /\ y * AtlasSize + x >= AtlasSize * AtlasSize

\* one turn of `for char in alphabet.chars()`; a cell is the pair of src and
\* uv in pixels (the code divides both by the atlas size)
RasterizeChar(st, char, gl) ==
    LET glyph == gl[char]
        step_x == round_up_pow_2(glyph.width)
        wrap == st.offset_x + step_x >= AtlasSize
        ox == IF wrap THEN 0 ELSE st.offset_x
        oy == IF wrap THEN st.offset_y + StepY ELSE st.offset_y
    IN  IF FailsHeightChecks(glyph)
        THEN [st EXCEPT !.offset_x = ox, !.offset_y = oy]
        ELSE IF WritesOutOfBounds(glyph, ox, oy)
        THEN [st EXCEPT !.offset_x = ox, !.offset_y = oy, !.panicked = TRUE]
        ELSE [offset_x |-> ox + step_x,
              offset_y |-> oy,
              charset |-> Insert(st.charset, char,
                                 [src |-> <<ox, oy>>, uv |-> <<step_x, StepY>>]),
              panicked |-> FALSE]

RECURSIVE RasterizeFrom(_, _, _, _)
RasterizeFrom(st, al, gl, i) ==
    IF i > Len(al) \/ st.panicked
    THEN st
    ELSE RasterizeFrom(RasterizeChar(st, al[i], gl), al, gl, i + 1)

\* rasterize_font_to_image_file on an alphabet and the glyphs of a font
RasterizeFont(al, gl) ==
    RasterizeFrom([offset_x |-> 0, offset_y |-> 0, charset |-> <<>>,
                   panicked |-> FALSE], al, gl, 1)

\* the arguments of a call that has not been made yet
RasterCreate(gl, al) ==
    /\ glyphs = gl
    /\ alphabet = al
    /\ charset = <<>>
    /\ raster_pc = "idle"

\* the call of rasterize_font_to_image_file
Rasterize ==
    /\ raster_pc = "idle"
    /\ LET st == RasterizeFont(alphabet, glyphs)
       IN  IF st.panicked
           THEN raster_pc' = "panicked" /\ charset' = charset
           ELSE raster_pc' = "returned" /\ charset' = st.charset
    /\ UNCHANGED <<glyphs, alphabet>>
    /\ UNCHANGED <<storageVars, frameVars, assetVars, reloadVars, fontVars, variableVars>>

\* the built-in font and the alphabet FontLoader::new loads it with:
\* ascii() + cyrillic(), where MISSING_CHAR comes twice
BuiltinGlyphs == [c \in Chars |-> [width |-> 2, height |-> 2, ymin |-> 0]]
BuiltinAlphabet == <<MissingChar, 1, MissingChar, 2>>

Families == {"system-ui", "serif"}
RequestFamilies == Families \cup {"mono"}
Weights == {400, 700}
Styles == {"normal", "italic", "bold"}
Sizes == {16, 24}

\* f32: 24 bits of precision, rounding to nearest, ties to even
RECURSIVE F32Ulp(_)
F32Ulp(n) == IF n < F32Precision THEN 1 ELSE 2 * F32Ulp(n \div 2)

F32(n) ==
    LET ulp == F32Ulp(n)
        q == n \div ulp
        r == n % ulp
    IN  IF 2 * r < ulp THEN q * ulp
        ELSE IF 2 * r > ulp THEN (q + 1) * ulp
        ELSE IF q % 2 = 0 THEN q * ulp
        ELSE (q + 1) * ulp

\* Record::embed
Embed(weight, style, size) ==
    <<size * 1000,
      weight,
      CASE style = "normal" -> 0
        [] style = "italic" -> 1
        [] style = "oblique" -> 2
        [] OTHER -> 9>>

\* VecMagnitude::dot of a vector with itself, the sum kept in an f32
SqrMagnitude(v) ==
    F32(F32(F32(v[1] * v[1]) + F32(v[2] * v[2])) + F32(v[3] * v[3]))

\* Record::diff; magnitude() takes the square root of the sum, which keeps
\* the order and the zero of the sums compared here
Diff(record, weight, style, size) ==
    LET search == Embed(weight, style, size)
        target == Embed(record.weight, record.style, record.size)
    IN  SqrMagnitude(<<target[1] - search[1], target[2] - search[2],
                       target[3] - search[3]>>)

\* f32::INFINITY, above every diff
Infinity == -1
\* if diff < best_diff
Less(diff, best_diff) == best_diff = Infinity \/ diff < best_diff

\* FontLoader::load_font: rasterize, then push the record
LoadFont(reg, family, weight, style, size, al, gl) ==
    Append(reg, [family |-> family, weight |-> weight, style |-> style,
                 size |-> size, font |-> RasterizeFont(al, gl).charset])

\* FontLoader::new: the registry holds the built-in font at index 0
FontLoaderNew ==
    /\ registry = LoadFont(<<>>, "system-ui", 400, "normal", 16,
                           BuiltinAlphabet, BuiltinGlyphs)
    /\ matched = [family |-> "none", weight |-> 0, style |-> "none", size |-> 0,
                  fonts |-> 0, index |-> 0]

\* load_font called by the application for a font it ships
LoadFontCall ==
    /\ Len(registry) < MaxFonts
    /\ ~RasterizeFont(BuiltinAlphabet, BuiltinGlyphs).panicked
    /\ \E family \in Families, weight \in Weights, style \in Styles, size \in Sizes :
          registry' = LoadFont(registry, family, weight, style, size,
                               BuiltinAlphabet, BuiltinGlyphs)
    /\ UNCHANGED matched
    /\ UNCHANGED <<storageVars, frameVars, assetVars, reloadVars, rasterVars, variableVars>>

\* the loop of match_font from index on (index counts from 0)
RECURSIVE MatchFrom(_, _, _, _, _)
MatchFrom(reg, q, index, best, best_diff) ==
    IF index >= Len(reg)
    THEN best
    ELSE LET record == reg[index + 1]
         IN  IF record.family = q.family
             THEN LET diff == Diff(record, q.weight, q.style, q.size)
                      better == Less(diff, best_diff)
                      new_best == IF better THEN index ELSE best
                      new_diff == IF better THEN diff ELSE best_diff
                  IN  IF diff = 0
                      THEN new_best
                      ELSE MatchFrom(reg, q, index + 1, new_best, new_diff)
             ELSE MatchFrom(reg, q, index + 1, best, best_diff)

\* FontLoader::match_font
MatchFont(reg, q) == MatchFrom(reg, q, 0, 0, Infinity)

MatchFontCall ==
    /\ \E family \in RequestFamilies, weight \in Weights, style \in Styles,
          size \in Sizes :
          LET q == [family |-> family, weight |-> weight, style |-> style,
                    size |-> size]
          IN  matched' = [family |-> family, weight |-> weight, style |-> style,
                          size |-> size, fonts |-> Len(registry),
                          index |-> MatchFont(registry, q)]
    /\ UNCHANGED registry
    /\ UNCHANGED <<storageVars, frameVars, assetVars, reloadVars, rasterVars, variableVars>>

(***************************************************************************)
(* Shader: a shader file and the modification time it was last read at     *)
(***************************************************************************)
\* the shader files of the renderers: program k is made from its own
\* vertex shader file and fragment shader file
ShaderFiles == 1..(2 * MaxPrograms)
VertPath(k) == 2 * k - 1
FragPath(k) == 2 * k

\* the shader files exist and none was written since the program started
ShadersCreate(debug) ==
    /\ modified = [f \in ShaderFiles |-> 0]
    /\ fs_clock = 0
    /\ debug_assertions = debug
    /\ rebuilt = {}

\* Shader::modified: fs::metadata(path).modified()
ShaderModifiedTime(path) == modified[path]

\* Shader::new
ShaderNew(path) == [path |-> path, version |-> ShaderModifiedTime(path)]

RenewStale(shader) == shader
\* Shader::renew
Renew(shader) == ShaderNew(shader.path)

\* Shader::changed
Changed(shader) == shader.version # ShaderModifiedTime(shader.path)

(***************************************************************************)
(* Vulkan: swapchain, frame pacing, registered programs and cameras        *)
(***************************************************************************)
\* Sync::create: the fences are created SIGNALED, no image has a fence
SyncCreate(n) ==
    /\ frame = 0
    /\ signaled = [k \in 0..(FRAMES_PROCESSING_CONCURRENCY - 1) |-> TRUE]
    /\ images = [c \in 0..(n - 1) |-> NullFence]

\* Vulkan::create, on a surface of n images and drawable size e
VulkanCreate(n, e) ==
    /\ swapchain = [extent |-> e, images |-> n, handle |-> 0]
    /\ render_pass = 0
    /\ framebuffers = [render_pass |-> 0, len |-> n]
    /\ command_buffers = n
    /\ SyncCreate(n)
    /\ need_resize = FALSE
    /\ programs = <<>>
    /\ cameras = <<>>
    /\ chain = 0
    /\ pc = "idle"
    /\ pending = {}
    /\ recording = FALSE
    /\ recorded = {}
    /\ next_image = 0
    /\ result = "none"
    /\ acquired = NoImage
    /\ presents = 0
    /\ submitted = {}

\* Program::create: the pipeline is built for the current swapchain; the
\* renderer's Uniform/Storage were created with one copy per swapchain image
ProgramCreate(sc, rp, vert, frag) ==
    [viewport |-> sc.extent, built |-> rp, current_frame |-> 0,
     current_commands |-> NullCommands, frames |-> sc.images,
     vert |-> vert, frag |-> frag]

RecreateKeepViewport(p, sc, rp) ==
    [p EXCEPT !.built = rp, !.vert = Renew(@), !.frag = Renew(@)]
\* Program::recreate: destroy, renew both shaders, then create_pipeline for
\* the given swapchain
Recreate(p, sc, rp) ==
    [p EXCEPT !.viewport = sc.extent, !.built = rp,
              !.vert = Renew(@), !.frag = Renew(@)]

\* Camera::update / update_screen
CameraUpdate(cam, size) ==
    IF size # cam.screen THEN [cam EXCEPT !.screen = size] ELSE cam

ResizeFencesCleared(imgs, n) == [c \in 0..(n - 1) |-> NullFence]
ResizeFencesKept(imgs, n) == imgs
\* self.sync.images.resize(len, vk::Fence::null())
ResizeFences(imgs, n) ==
    [c \in 0..(n - 1) |-> IF c \in DOMAIN imgs THEN imgs[c] ELSE NullFence]

\* Vulkan::resize, on a surface that now has n images and drawable size e
Resize(n, e) ==
    /\ pending = {}     \* device_wait_idle returns
    /\ swapchain' = [extent |-> e, images |-> n, handle |-> swapchain.handle + 1]
    /\ render_pass' = swapchain.handle + 1
    /\ framebuffers' = [render_pass |-> swapchain.handle + 1, len |-> n]
    /\ programs' = [i \in DOMAIN programs |->
                      Recreate(programs[i], swapchain', render_pass')]
    /\ cameras' = [i \in DOMAIN cameras |-> CameraUpdate(cameras[i], e)]
    /\ images' = ResizeFences(images, n)
    /\ submitted' = {}

\* Graphics::create_program followed by Vulkan::register, between two frames
CreateProgram ==
    /\ pc = "idle"
    /\ Len(programs) < MaxPrograms
    /\ programs' = Append(programs,
                           ProgramCreate(swapchain, render_pass,
                                         ShaderNew(VertPath(Len(programs) + 1)),
                                         ShaderNew(FragPath(Len(programs) + 1))))
    /\ UNCHANGED <<pc, frame, chain, need_resize, images, signaled, pending,
                   swapchain, render_pass, framebuffers, command_buffers, cameras,
                   recording, recorded, next_image, result, acquired, presents,
                   submitted>>
    /\ UNCHANGED <<storageVars, assetVars, hostVars>>

\* a shader file is written (the shader compiler of the developer saves it)
ShaderWritten ==
    /\ fs_clock < MaxWrites
    /\ \E f \in ShaderFiles :
          modified' = [modified EXCEPT ![f] = fs_clock + 1]
    /\ fs_clock' = fs_clock + 1
    /\ UNCHANGED <<debug_assertions, rebuilt>>
    /\ UNCHANGED <<storageVars, frameVars, assetVars, rasterVars, fontVars, variableVars>>

\* program.frag.changed() || program.vert.changed()
ProgramChanged(p) == Changed(p.frag) \/ Changed(p.vert)

\* Vulkan::update, which Graphics::prepare calls before Vulkan::prepare, so
\* between two frames: in a debug build every registered
\* program whose shader changed is recreated once the device is idle; in a
\* release build the body is compiled out
VulkanUpdate ==
    /\ pc = "idle"
    /\ IF debug_assertions
       THEN /\ (\E i \in DOMAIN programs : ProgramChanged(programs[i]))
                  => pending = {}
            /\ programs' = [i \in DOMAIN programs |->
                              IF ProgramChanged(programs[i])
                              THEN Recreate(programs[i], swapchain, render_pass)
                              ELSE programs[i]]
            /\ rebuilt' = {i \in DOMAIN programs : ProgramChanged(programs[i])}
       ELSE /\ programs' = programs
            /\ rebuilt' = {}
    /\ UNCHANGED <<pc, frame, chain, need_resize, images, signaled, pending,
                   swapchain, render_pass, framebuffers, command_buffers, cameras,
                   recording, recorded, next_image, result, acquired, presents,
                   submitted>>
    /\ UNCHANGED <<modified, fs_clock, debug_assertions>>
    /\ UNCHANGED <<storageVars, assetVars, rasterVars, fontVars, variableVars>>

\* the renderers created before the first frame
SetupProgram == presents = 0 /\ CreateProgram

\* Camera::create followed by Vulkan::register_camera, between two frames
RegisterCamera ==
    /\ pc = "idle"
    /\ Len(cameras) < MaxCameras
    /\ cameras' = Append(cameras, [screen |-> ZeroScreen])
    /\ UNCHANGED <<pc, frame, chain, need_resize, images, signaled, pending,
                   swapchain, render_pass, framebuffers, command_buffers, programs,
                   recording, recorded, next_image, result, acquired, presents,
                   submitted>>
    /\ UNCHANGED <<storageVars, assetVars, hostVars>>

\* the caller's frame loop enters prepare()
PrepareBegin ==
    /\ pc = "idle"
    /\ presents < MaxPresents
    /\ pc' = "acquire"
    /\ UNCHANGED <<frame, chain, need_resize, images, signaled, pending,
                   swapchain, render_pass, framebuffers, command_buffers, programs,
                   cameras, recording, recorded, next_image, result, acquired,
                   presents, submitted>>
    /\ UNCHANGED <<storageVars, assetVars, hostVars>>

\* prepare(): the loop continues on None and goes on to begin_render_pass on Some
PrepareLoopAlwaysBegin(outcome) == "begin"
PrepareLoop(outcome) == IF outcome = NoImage THEN "acquire" ELSE "begin"

\* wait_for_fences(&[self.sync.fences[self.sync.frame]]) returns
FrameFenceReady(k) == signaled[k]

\* acquire_next_image: fence wait, then the need_resize branch
AcquireNeedResize ==
    /\ pc = "acquire"
    /\ FrameFenceReady(frame)
    /\ need_resize
    /\ \E n \in ImageCounts, e \in Extents : Resize(n, e)
    /\ need_resize' = FALSE
    /\ acquired' = NoImage
    /\ pc' = PrepareLoop(NoImage)
    /\ UNCHANGED <<frame, chain, signaled, pending, command_buffers, recording,
                   recorded, next_image, result, presents>>
    /\ UNCHANGED <<storageVars, assetVars, hostVars>>

\* acquire_next_image: fence wait, need_resize is false
AcquireFence ==
    /\ pc = "acquire"
    /\ FrameFenceReady(frame)
    /\ ~need_resize
    /\ pc' = "acquire_image"
    /\ UNCHANGED <<frame, chain, need_resize, images, signaled, pending,
                   swapchain, render_pass, framebuffers, command_buffers, programs,
                   cameras, recording, recorded, next_image, result, acquired,
                   presents, submitted>>
    /\ UNCHANGED <<storageVars, assetVars, hostVars>>

\* results of acquire_next_image_khr: Ok with any success code (SUCCESS or
\* SUBOPTIMAL_KHR), Err(OUT_OF_DATE_KHR), any other Err
AcquireResults == {"ok", "out_of_date", "device_lost"}

AcquireOutcomeAllFatal(r) ==
    IF r = "ok" THEN "some" ELSE "panic"
\* the match on the result: Ok((next_image, _)), Err(OUT_OF_DATE_KHR), Err(error)
AcquireOutcome(r) ==
    IF r = "ok" THEN "some"
    ELSE IF r = "out_of_date" THEN "retry"
    ELSE "panic"

\* acquire_next_image: acquire_next_image_khr and the match on its result
AcquireImage ==
    /\ pc = "acquire_image"
    /\ \E r \in AcquireResults :
        /\ r = "out_of_date" => swapchain.handle < MaxResizes
        /\ result' = r
        /\ CASE AcquireOutcome(r) = "some" ->
                  /\ \E c \in 0..(swapchain.images - 1) : next_image' = c
                  /\ pc' = "wait_image"
                  /\ UNCHANGED <<images, swapchain, render_pass, framebuffers,
                                 programs, cameras, acquired, submitted>>
             [] AcquireOutcome(r) = "retry" ->
                  /\ \E n \in ImageCounts, e \in Extents : Resize(n, e)
                  /\ acquired' = NoImage
                  /\ pc' = PrepareLoop(NoImage)
                  /\ UNCHANGED next_image
             [] OTHER ->
                  /\ pc' = "panicked"
                  /\ UNCHANGED <<images, swapchain, render_pass, framebuffers,
                                 programs, cameras, acquired, submitted, next_image>>
    /\ UNCHANGED <<frame, chain, need_resize, signaled, pending, command_buffers,
                   recording, recorded, presents>>
    /\ UNCHANGED <<storageVars, assetVars, hostVars>>

ImageFenceReadyNoWait(c) == TRUE
\* the wait on self.sync.images[chain] when it is not null returns
ImageFenceReady(c) == IF images[c] = NullFence THEN TRUE ELSE signaled[images[c]]

\* acquire_next_image: wait on the image's fence, associate the frame slot's
\* fence with the image, return Some(chain); prepare() stores it in self.chain
AcquireWaitImage ==
    /\ pc = "wait_image"
    /\ ImageFenceReady(next_image)
    /\ images' = [images EXCEPT ![next_image] = frame]
    /\ acquired' = next_image
    /\ chain' = next_image
    /\ pc' = PrepareLoop(next_image)
    /\ UNCHANGED <<frame, need_resize, signaled, pending, swapchain, render_pass,
                   framebuffers, command_buffers, programs, cameras, recording,
                   recorded, next_image, result, presents, submitted>>
    /\ UNCHANGED <<storageVars, assetVars, hostVars>>

ConfigureCommandsOnly(p, c) == [p EXCEPT !.current_commands = c]
\* program.set_command_buffer(self.command_buffers[self.chain]); set_chain
Configure(p, c) == [p EXCEPT !.current_commands = c, !.current_frame = c]

\* prepare(): begin_render_pass, then every registered program is configured
BeginRenderPass ==
    /\ pc = "begin"
    /\ IF chain >= command_buffers
       THEN \* self.command_pools[self.chain] is out of bounds: panic
            /\ pc' = "panicked"
            /\ UNCHANGED <<programs, recording, recorded>>
       ELSE /\ recording' = TRUE
            /\ recorded' = {}
            /\ programs' = [i \in DOMAIN programs |-> Configure(programs[i], chain)]
            /\ pc' = "rendering"
    /\ UNCHANGED <<frame, chain, need_resize, images, signaled, pending,
                   swapchain, render_pass, framebuffers, command_buffers, cameras,
                   next_image, result, acquired, presents, submitted>>
    /\ UNCHANGED <<storageVars, assetVars, hostVars>>

\* CanvasRenderer::bind of the renderer owning program i: bind_pipeline, then
\* Uniform::update(program.frame()) and bind_uniform
Bind ==
    /\ pc = "rendering"
    /\ \E i \in DOMAIN programs :
        IF programs[i].current_commands = NullCommands
           \/ programs[i].current_frame >= programs[i].frames
        THEN \* commands() panics, or buffers[frame] is out of bounds
             /\ pc' = "panicked"
             /\ UNCHANGED recorded
        ELSE /\ recorded' = recorded \cup {<<i, programs[i].current_frame>>}
             /\ pc' = "rendering"
    /\ UNCHANGED <<frame, chain, need_resize, images, signaled, pending,
                   swapchain, render_pass, framebuffers, command_buffers, programs,
                   cameras, recording, next_image, result, acquired, presents,
                   submitted>>
    /\ UNCHANGED <<storageVars, assetVars, hostVars>>

\* present(): end_render_pass, reset_fences and queue_submit with the fence
\* of the image
PresentSubmit ==
    /\ pc = "rendering"
    /\ recording' = FALSE
    /\ LET fence == images[chain] IN
        /\ signaled' = [signaled EXCEPT ![fence] = FALSE]
        /\ pending' = pending \cup {[seq |-> presents, image |-> chain,
                                     commands |-> chain, fence |-> fence,
                                     uses |-> recorded]}
    /\ submitted' = submitted \cup {chain}
    /\ pc' = "presenting"
    /\ UNCHANGED <<frame, chain, need_resize, images, swapchain, render_pass,
                   framebuffers, command_buffers, programs, cameras, recorded,
                   next_image, result, acquired, presents>>
    /\ UNCHANGED <<storageVars, assetVars, hostVars>>

\* results of queue_present_khr
PresentResults == {"success", "suboptimal", "out_of_date", "device_lost"}

AdvanceFrameIfUnchanged(f, changed) ==
    IF changed THEN f ELSE (f + 1) % FRAMES_PROCESSING_CONCURRENCY
\* self.sync.frame = (self.sync.frame + 1) % FRAMES_PROCESSING_CONCURRENCY
AdvanceFrame(f, changed) == (f + 1) % FRAMES_PROCESSING_CONCURRENCY

PresentChangedOutOfDateOnly(r) == r = "out_of_date"
\* let changed = result == Ok(SUBOPTIMAL_KHR) || result == Err(OUT_OF_DATE_KHR)
PresentChanged(r) == r \in {"suboptimal", "out_of_date"}

\* present(): queue_present_khr returning r, the need_resize flag, the frame
\* slot
PresentWith(r) ==
    /\ pc = "presenting"
    /\ LET changed == PresentChanged(r) IN
        /\ r \in {"suboptimal", "out_of_date"} => swapchain.handle < MaxResizes
        /\ IF changed
           THEN /\ need_resize' = TRUE
                /\ frame' = AdvanceFrame(frame, changed)
                /\ presents' = presents + 1
                /\ pc' = "idle"
           ELSE IF r \notin {"success", "suboptimal"}
                THEN \* panic!("unable to present {}", error)
                     /\ pc' = "panicked"
                     /\ UNCHANGED <<need_resize, frame, presents>>
                ELSE /\ frame' = AdvanceFrame(frame, changed)
                     /\ presents' = presents + 1
                     /\ pc' = "idle"
                     /\ UNCHANGED need_resize
    /\ UNCHANGED <<chain, images, signaled, pending, swapchain, render_pass,
                   framebuffers, command_buffers, programs, cameras, recording,
                   recorded, next_image, result, acquired, submitted>>
    /\ UNCHANGED <<storageVars, assetVars, hostVars>>

PresentQueue == \E r \in PresentResults : PresentWith(r)

FenceLeftUnsignaled(fences, k) == fences
\* the fence given to queue_submit is signaled when the submission completes
FenceSignaled(fences, k) == [fences EXCEPT ![k] = TRUE]

\* the GPU completes a submission, in any order, and signals its fence
GpuComplete ==
    /\ \E s \in pending :
        /\ pending' = pending \ {s}
        /\ signaled' = FenceSignaled(signaled, s.fence)
    /\ UNCHANGED <<pc, frame, chain, need_resize, images, swapchain, render_pass,
                   framebuffers, command_buffers, programs, cameras, recording,
                   recorded, next_image, result, acquired, presents, submitted>>
    /\ UNCHANGED <<storageVars, assetVars, hostVars>>

(***************************************************************************)
(* Uniform<T> and the descriptor sets of Storage::layout                   *)
(***************************************************************************)
\* a descriptor set nothing was written to yet
NullBuffer == -1

\* create_buffers: the handle of the buffer made for frame f
BufferHandle(f) == f

WriteSetFirst(f) == 0
\* the descriptor set a write goes to: dst_set(variable.descriptors[frame])
WriteSet(f) == f

\* Storage::write, Uniform::write: one update_descriptor_sets call
Write(sets_, f, buffer) == [sets_ EXCEPT ![WriteSet(f)] = buffer]

\* for frame in 0..frames { write(frame, buffers[frame].handle) }
RECURSIVE WriteFrames(_, _)
WriteFrames(sets_, n) ==
    IF n = 0 THEN sets_
    ELSE Write(WriteFrames(sets_, n - 1), n - 1, BufferHandle(n - 1))

\* create_descriptors: `frames` descriptor sets that refer to nothing
CreateDescriptors(frames) == [f \in 0..(frames - 1) |-> NullBuffer]

\* Uniform::create: one buffer and one descriptor set per swapchain image
UniformCreate ==
    /\ sets = WriteFrames(CreateDescriptors(swapchain.images), swapchain.images)
    /\ uniform_buffers = [f \in 0..(swapchain.images - 1) |-> DefaultValue]
    /\ descriptors = <<>>
    /\ descriptor_writes = [uniform |-> swapchain.images, storage |-> 0]

\* Uniform::update(frame, value): copies the value into the buffer of frame
UniformUpdate ==
    /\ \E f \in DOMAIN uniform_buffers, value \in Values :
          uniform_buffers' = [uniform_buffers EXCEPT ![f] = value]
    /\ UNCHANGED <<descriptors, sets, descriptor_writes>>
    /\ UNCHANGED <<storageVars, frameVars, assetVars, reloadVars, rasterVars,
                   fontVars>>

\* Storage::layout(set, binding): a new Variable with one descriptor set per
\* buffer, each written once
StorageLayout ==
    /\ storage_pc = "ok"
    /\ descriptor_writes.storage < MaxLayouts * Cardinality(DOMAIN buffers)
    /\ LET frames == Cardinality(DOMAIN buffers)
       IN  /\ descriptors' = WriteFrames(CreateDescriptors(frames), frames)
           /\ descriptor_writes' = [descriptor_writes EXCEPT
                                       !.storage = @ + frames]
    /\ UNCHANGED <<sets, uniform_buffers>>
    /\ UNCHANGED <<storageVars, frameVars, assetVars, reloadVars, rasterVars,
                   fontVars>>

(***************************************************************************)
(* Specifications                                                          *)
(***************************************************************************)
\* a Storage of any capacity, created on a freshly created Vulkan
\* the assets as they are after construction
AssetsCreate == TexturesCreate /\ TexturesManagerNew

\* a debug build, no font rasterized by hand yet, the font loader created
HostCreate ==
    /\ ShadersCreate(TRUE)
    /\ RasterCreate(BuiltinGlyphs, BuiltinAlphabet)
    /\ FontLoaderNew
    /\ UniformCreate

InitStorage ==
    /\ VulkanCreate(2, 1)
    /\ \E n \in 1..MaxCap : StorageCreate(n)
    /\ AssetsCreate
    /\ HostCreate

NextStorage ==
    \/ StoragePush
    \/ StorageExtend
    \/ StorageTake

SpecStorage == InitStorage /\ [][NextStorage]_vars

\* a Storage with its layout and a Uniform, used by a renderer
InitVariables ==
    /\ VulkanCreate(2, 1)
    /\ StorageCreate(1)
    /\ AssetsCreate
    /\ HostCreate

NextVariables ==
    \/ StorageLayout
    \/ UniformUpdate
    \/ StoragePush
    \/ StorageExtend
    \/ StorageTake

SpecVariables == InitVariables /\ [][NextVariables]_vars

\* the frame loop on any surface, with a Storage left untouched
InitFrame ==
    /\ \E n \in ImageCounts, e \in Extents : VulkanCreate(n, e)
    /\ StorageCreate(1)
    /\ AssetsCreate
    /\ HostCreate

NextFrame ==
    \/ SetupProgram
    \/ PrepareBegin
    \/ AcquireNeedResize
    \/ AcquireFence
    \/ AcquireImage
    \/ AcquireWaitImage
    \/ BeginRenderPass
    \/ Bind
    \/ PresentSubmit
    \/ PresentQueue
    \/ GpuComplete

SpecFrame == InitFrame /\ [][NextFrame]_vars

\* the frame loop of a caller that registers programs and cameras on the way
RegistryPrepare == presents < MaxRegistryPresents /\ PrepareBegin

\* programs and cameras registered at any time between frames, resizes
\* arriving through the frame loop of a caller that draws nothing
NextRegistry ==
    \/ CreateProgram
    \/ RegisterCamera
    \/ RegistryPrepare
    \/ AcquireNeedResize
    \/ AcquireFence
    \/ AcquireImage
    \/ AcquireWaitImage
    \/ BeginRenderPass
    \/ PresentSubmit
    \/ PresentQueue
    \/ GpuComplete

SpecRegistry == InitFrame /\ [][NextRegistry]_vars

\* one bindless table and a caller storing textures in it
InitTable ==
    /\ VulkanCreate(2, 1)
    /\ StorageCreate(1)
    /\ AssetsCreate
    /\ HostCreate

NextTable == TableStore

SpecTable == InitTable /\ [][NextTable]_vars

\* the texture manager used by the main thread while its reader and loader
\* threads run
InitLoader ==
    /\ VulkanCreate(2, 1)
    /\ StorageCreate(1)
    /\ AssetsCreate
    /\ HostCreate

NextLoader ==
    \/ ManagerGetTexture
    \/ CreateDynamicTexture
    \/ ManagerUpdateDynamicTexture
    \/ UpdateBegin
    \/ UpdateNext
    \/ ReaderThread
    \/ LoaderBegin
    \/ LoaderEnd

SpecLoader == InitLoader /\ [][NextLoader]_vars

\* a caller that works with two files and one dynamic texture and also
\* uploads textures of its own with create_texture
LivePaths == {[memory |-> FALSE, n |-> 1], [memory |-> FALSE, n |-> 2],
              [memory |-> TRUE, n |-> 0]}
LiveGetTexture == jobs < MaxLiveJobs /\ (\E path \in LivePaths : GetTexture(path))
LiveCreateDynamicTexture ==
    /\ jobs < MaxLiveJobs
    /\ records = <<>>
    /\ CreateDynamicTexture
LiveUpdateDynamicTexture ==
    /\ jobs < MaxLiveJobs
    /\ \E path \in LivePaths : UpdateDynamicTexture(path)

NextLoaderLive ==
    \/ LiveGetTexture
    \/ LiveCreateDynamicTexture
    \/ LiveUpdateDynamicTexture
    \/ UpdateBegin
    \/ UpdateNext
    \/ CreateTextureBegin
    \/ CreateTextureEnd
    \/ ReaderThread
    \/ LoaderBegin
    \/ LoaderEnd

\* the scheduling of the threads: each reader and the loader thread take
\* their next step when they have one, and the main thread calls update()
\* again and again and finishes each call it makes
LoaderFairness ==
    /\ \A id \in ReaderIds : WF_vars(Reader(id))
    /\ WF_vars(LoaderBegin)
    /\ WF_vars(LoaderEnd)
    /\ SF_vars(UpdateBegin)
    /\ WF_vars(UpdateNext)
    /\ WF_vars(CreateTextureEnd)

SpecLoaderLive == InitLoader /\ [][NextLoaderLive]_vars /\ LoaderFairness

\* a manager that is used and then dropped while its threads still run
DropGetTexture == jobs < MaxDropJobs /\ ManagerGetTexture
DropCreateDynamicTexture == jobs < MaxDropJobs /\ CreateDynamicTextureReturning

NextDrop ==
    \/ DropGetTexture
    \/ DropCreateDynamicTexture
    \/ UpdateBegin
    \/ UpdateNext
    \/ DropManager
    \/ ReaderThread
    \/ LoaderBegin
    \/ LoaderEnd

\* each thread is scheduled: a reader or the loader that can take a step
\* takes it
DropFairness ==
    /\ \A id \in ReaderIds : WF_vars(Reader(id))
    /\ WF_vars(LoaderBegin)
    /\ WF_vars(LoaderEnd)

SpecDrop == InitLoader /\ [][NextDrop]_vars /\ DropFairness

\* shader files written while a debug or a release build polls them
InitReload ==
    /\ VulkanCreate(2, 1)
    /\ StorageCreate(1)
    /\ AssetsCreate
    /\ \E debug \in BOOLEAN : ShadersCreate(debug)
    /\ RasterCreate(BuiltinGlyphs, BuiltinAlphabet)
    /\ FontLoaderNew
    /\ UniformCreate

NextReload ==
    \/ CreateProgram
    \/ ShaderWritten
    \/ VulkanUpdate

SpecReload == InitReload /\ [][NextReload]_vars

\* the alphabets of at most MaxAlphabet characters
Alphabets == UNION {[1..n -> Chars] : n \in 0..MaxAlphabet}

\* rasterize_font_to_image_file called on any alphabet and any font
InitRaster ==
    /\ VulkanCreate(2, 1)
    /\ StorageCreate(1)
    /\ AssetsCreate
    /\ ShadersCreate(TRUE)
    /\ \E gl \in [Chars -> GlyphKinds], al \in Alphabets : RasterCreate(gl, al)
    /\ FontLoaderNew
    /\ UniformCreate

NextRaster == Rasterize

SpecRaster == InitRaster /\ [][NextRaster]_vars

\* fonts loaded and matched in any order
InitFonts ==
    /\ VulkanCreate(2, 1)
    /\ StorageCreate(1)
    /\ AssetsCreate
    /\ HostCreate

NextFonts ==
    \/ LoadFontCall
    \/ MatchFontCall

SpecFonts == InitFonts /\ [][NextFonts]_vars


\* the frame loop of a caller that draws nothing, on a surface that keeps
\* its size but may change its number of images; the main thread keeps
\* running prepare() and the GPU completes what is submitted to it
LivePrepareBegin == presents < MaxLivePresents /\ PrepareBegin
LiveAcquireNeedResize == AcquireNeedResize /\ swapchain'.extent = swapchain.extent
LiveAcquireImage == AcquireImage /\ swapchain'.extent = swapchain.extent

InitFrameLive ==
    /\ \E n \in ImageCounts : VulkanCreate(n, 1)
    /\ StorageCreate(1)
    /\ AssetsCreate
    /\ HostCreate

NextFrameLive ==
    \/ LivePrepareBegin
    \/ LiveAcquireNeedResize
    \/ AcquireFence
    \/ LiveAcquireImage
    \/ AcquireWaitImage
    \/ BeginRenderPass
    \/ PresentSubmit
    \/ PresentQueue
    \/ GpuComplete

FrameFairness ==
    /\ WF_vars(LiveAcquireNeedResize)
    /\ WF_vars(AcquireFence)
    /\ WF_vars(LiveAcquireImage)
    /\ WF_vars(AcquireWaitImage)
    /\ WF_vars(GpuComplete)

SpecFrameLive == InitFrameLive /\ [][NextFrameLive]_vars /\ FrameFairness

(***************************************************************************)
(* Claims about Storage, checked under SpecStorage                         *)
(***************************************************************************)
\* the first k calls since the storage was empty are all push calls
AllPush(k) == \A i \in 1..k : ops[i].op = "push"

\* number of elements stored by the calls before call k
RECURSIVE StoredBefore(_)
StoredBefore(k) ==
    IF k <= 1 THEN 0
    ELSE StoredBefore(k - 1) + (IF ops[k - 1].stored THEN ops[k - 1].count ELSE 0)

\* C7: starting from an empty Storage of capacity n, the first n consecutive
\* push calls all succeed and their values sit at indices 0..n-1; every
\* further push is rejected, returns normally and leaves these n values and
\* the cursor (= n) as they were.
C7_PushUpToCapacity ==
    \A k \in 1..Len(ops) :
        AllPush(k) =>
            /\ storage_pc = "ok"
            /\ IF k <= Len(collection)
               THEN /\ ops[k].stored
                    /\ collection[k] = ops[k].arg[1]
                    /\ cursor >= k
               ELSE /\ ~ops[k].stored
                    /\ cursor = Len(collection)
            /\ (k = Len(ops) => cursor = Min(k, Len(collection)))

C7_Witness ==
    /\ Len(collection) >= 2
    /\ Len(ops) = Len(collection) + 1
    /\ AllPush(Len(ops))
    /\ ~ops[Len(ops)].stored
    /\ cursor = Len(collection)
    /\ \A k \in 1..Len(collection) : collection[k] = ops[k].arg[1]

\* C8: the index a rejected push returns differs from every index a
\* successful push returns.
C8_RejectedPushSentinel ==
    \A i, j \in 1..Len(ops) :
        ( /\ ops[i].op = "push" /\ ~ops[i].stored
          /\ ops[j].op = "push" /\ ops[j].stored )
        => ops[i].value # ops[j].value

C10_TakeResetsCursor ==
    [][ /\ (ret'.op = "take_and_update") =>
              /\ cursor' = 0
              /\ Len(collection') = Len(collection)
              /\ DOMAIN buffers' = DOMAIN buffers
        /\ (ret.op = "take_and_update" /\ ret'.op = "push") =>
              /\ ret'.value = 0
              /\ cursor' = 1
              /\ ops'[1].stored
              /\ collection'[1] = ops'[1].arg[1]
              /\ Len(collection') = Len(collection)
      ]_vars

C10_Witness ==
    /\ taken = Len(collection)
    /\ ret = [op |-> "push", value |-> 0]
    /\ Len(ops) = 1
    /\ ops[1].stored
    /\ cursor = 1
    /\ collection[1] = ops[1].arg[1]

\* C11: after any sequence of push, extend and take_and_update calls on a
\* Storage of capacity n, 0 <= cursor <= n, the staging array (and every
\* buffer copy taken from it) still has exactly n elements, no call indexed
\* the array at n or beyond (which would panic), and a push or extend
\* rejected for capacity returns normally, leaving cursor and array alone.
C11_StorageWithinCapacity ==
    /\ [](/\ storage_pc = "ok"
          /\ cursor \in 0..Len(collection)
          /\ \A f \in DOMAIN buffers : Len(buffers[f]) = Len(collection))
    /\ [][ /\ Len(collection') = Len(collection)
           /\ (ops' # ops /\ ops' # <<>> /\ ~ops'[Len(ops')].stored) =>
                 /\ storage_pc' = "ok"
                 /\ ret'.value = 0
                 /\ cursor' = cursor
                 /\ collection' = collection ]_vars

C11_Witness ==
    /\ storage_pc = "ok"
    /\ cursor = Len(collection)
    /\ Len(collection) = MaxCap
    /\ Len(ops) = MaxOps
    /\ ops[MaxOps].op = "extend"
    /\ ops[MaxOps].count = 2
    /\ ~ops[MaxOps].stored

(***************************************************************************)
(* Claims about frame pacing, checked under SpecFrame                      *)
(***************************************************************************)
\* the GPU has not completed a submission made for swapchain image c
ImageInFlight(c) == \E s \in pending : s.image = c
\* the GPU has not completed a submission of command buffer k
CommandsInFlight(k) == \E s \in pending : s.commands = k
\* the GPU has not completed a submission that reads copy k of the
\* per-frame buffers of program i's renderer
CopyInFlight(i, k) == \E s \in pending : <<i, k>> \in s.uses

\* C1: whenever acquire_next_image has returned image index c to prepare()
\* and while that image is rendered into, every submission an earlier
\* present() made for image c has completed.
C1_AcquiredImageIdle ==
    pc \in {"begin", "rendering"} => ~ImageInFlight(chain)

C1_Witness ==
    /\ pc = "rendering"
    /\ chain # frame
    /\ chain \in submitted
    /\ pending # {}
    /\ swapchain.images > FRAMES_PROCESSING_CONCURRENCY

\* C2: when the host resets command pool `chain` (begin_render_pass) and
\* while it may write copy current_frame of a configured program's uniform
\* or storage buffers (between prepare() and present()), no pending GPU
\* submission uses that command buffer or that buffer copy.
C2_NoHostWriteWhileGpuReads ==
    /\ (pc = "begin" /\ chain < command_buffers) => ~CommandsInFlight(chain)
    /\ pc = "rendering" =>
          /\ ~CommandsInFlight(chain)
          /\ \A i \in DOMAIN programs :
                ( /\ programs[i].current_commands # NullCommands
                  /\ programs[i].current_frame < programs[i].frames )
                => ~CopyInFlight(i, programs[i].current_frame)

C2_Witness ==
    /\ pc = "rendering"
    /\ recorded # {}
    /\ chain \in submitted
    /\ \E s \in pending : s.uses # {} /\ s.image # chain

\* C3: the frame slot equals the number of present() calls that have
\* returned, modulo FRAMES_PROCESSING_CONCURRENCY, in every state: also after
\* a present that reported suboptimal/out-of-date, and across every outcome
\* of acquire_next_image and every resize.
C3_FrameSlotCountsPresents ==
    frame = presents % FRAMES_PROCESSING_CONCURRENCY

C3_Witness ==
    /\ presents = 3
    /\ frame = 1
    /\ need_resize
    /\ swapchain.handle >= 1

PhaseOf(p) ==
    CASE p = "idle" -> "Idle"
      [] p \in {"acquire", "acquire_image", "wait_image", "begin"} -> "Acquiring"
      [] p = "rendering" -> "Rendering"
      [] p = "presenting" -> "Presenting"
      [] OTHER -> "Panicked"

PhaseCycle == {<<"Idle", "Acquiring">>, <<"Acquiring", "Rendering">>,
               <<"Rendering", "Presenting">>, <<"Presenting", "Idle">>}

\* what prepare() configures of the registered programs
ProgramConfig(ps) ==
    [i \in DOMAIN ps |-> <<ps[i].current_commands, ps[i].current_frame>>]

C5_AcquireOutcomes ==
    [][ /\ (pc = "acquire_image" /\ pc' # pc) =>
              \/ /\ result' = "ok"
                 /\ pc' = "wait_image"
                 /\ next_image' \in 0..(swapchain.images - 1)
                 /\ swapchain' = swapchain
              \/ /\ result' = "out_of_date"
                 /\ pc' = "acquire"
                 /\ acquired' = NoImage
                 /\ swapchain'.handle = swapchain.handle + 1
              \/ /\ result' \notin {"ok", "out_of_date"}
                 /\ pc' = "panicked"
        /\ (pc = "wait_image" /\ pc' # pc) =>
              /\ acquired' = next_image
              /\ acquired' # NoImage
        /\ (pc' = "rendering" /\ pc # "rendering") =>
              /\ result = "ok"
              /\ acquired = chain
              /\ chain \in 0..(swapchain.images - 1)
      ]_vars

C5_Witness ==
    /\ pc = "rendering"
    /\ result = "ok"
    /\ presents = 0
    /\ swapchain.handle = 1
    /\ acquired = chain

(***************************************************************************)
(* Claims about the registries, checked under SpecRegistry                 *)
(***************************************************************************)
\* C6: a resize rebuilds the pipeline of every registered program with a
\* viewport equal to the new swapchain extent and sets the screen of every
\* registered camera to the new extent; no program or camera is dropped.
C6_ResizeRecreatesAll ==
    [][ swapchain'.handle # swapchain.handle =>
            /\ Len(programs') = Len(programs)
            /\ Len(cameras') = Len(cameras)
            /\ \A i \in DOMAIN programs :
                  /\ programs'[i].viewport = swapchain'.extent
                  /\ programs'[i].built = render_pass'
                  /\ programs'[i].built # programs[i].built
            /\ \A j \in DOMAIN cameras : cameras'[j].screen = swapchain'.extent
      ]_vars

C6_Witness ==
    /\ swapchain.handle >= 1
    /\ Len(programs) = 2
    /\ Len(cameras) = 1
    /\ cameras[1].screen = swapchain.extent
    /\ \A i \in DOMAIN programs :
          /\ programs[i].frames # swapchain.images
          /\ programs[i].viewport = swapchain.extent
          /\ programs[i].built = render_pass

(***************************************************************************)
(* Claims about the bindless texture table, checked under SpecTable        *)
(***************************************************************************)
\* C12: two store(t, sampler) calls on the same table return the same slot
\* index whatever other store calls happen between them, and only the first
\* of them issues a descriptor write and registers the texture: a store of
\* a texture that was stored before leaves writes and registry unchanged.
C12_StoreDeduplicates ==
    /\ [](\A a \in stored, b \in stored :
             (a.image = b.image /\ a.sampler = b.sampler) => a.index = b.index)
    /\ [][ (\E a \in stored : a.image = store_ret'.image) =>
              /\ table_writes' = table_writes
              /\ table_textures' = table_textures ]_vars

C12_Witness ==
    /\ store_ret = [image |-> 1, sampler |-> 1, index |-> 0, wrote |-> FALSE]
    /\ Len(table_textures) = 2
    /\ table_writes[1] = [element |-> 0, view |-> 1, sampler |-> 1]

\* C13: slot indices are assigned in first-use order 0, 1, 2, ...; two
\* textures with different image handles never share a slot index; a slot
\* once assigned to a texture is never reassigned to another texture.
C13_SlotsStable ==
    /\ [](/\ \A k \in DOMAIN table_writes : table_writes[k].element = k - 1
          /\ \A a \in stored, b \in stored :
                a.image # b.image => a.index # b.index
          /\ \A a \in stored :
                /\ a.index + 1 \in DOMAIN table_textures
                /\ table_textures[a.index + 1].image = a.image)
    /\ [][ /\ Len(table_textures') >= Len(table_textures)
           /\ \A i \in DOMAIN table_textures :
                 table_textures'[i] = table_textures[i] ]_vars

C13_Witness ==
    /\ Len(table_textures) = MaxDescriptors
    /\ table_textures[1].image = 3
    /\ table_textures[2].image = 1
    /\ [image |-> 3, sampler |-> 2, index |-> 0] \in stored
    /\ [image |-> 1, sampler |-> 2, index |-> 1] \in stored
    /\ store_ret = [image |-> 3, sampler |-> 1, index |-> 0, wrote |-> FALSE]

\* C14: the table never holds more than max_descriptors textures and never
\* writes a descriptor array element at max_descriptors or beyond: a store
\* of a new texture on a full table panics before any descriptor write or
\* registration, a store of a registered texture on a full table returns
\* its slot index.
C14_TableCapacity ==
    /\ [](/\ Len(table_textures) <= MaxDescriptors
          /\ \A k \in DOMAIN table_writes :
                table_writes[k].element < MaxDescriptors)
    /\ [][ Len(table_textures) = MaxDescriptors =>
              /\ table_writes' = table_writes
              /\ table_textures' = table_textures
              /\ IF \E i \in DOMAIN table_textures :
                       table_textures[i].image = store_ret'.image
                 THEN /\ table_pc' = "ok"
                      /\ table_textures[store_ret'.index + 1].image =
                            store_ret'.image
                 ELSE table_pc' = "panicked" ]_vars

C14_Witness ==
    /\ table_pc = "panicked"
    /\ Len(table_textures) = MaxDescriptors
    /\ Len(table_writes) = MaxDescriptors
    /\ store_ret.index = -1
    /\ \E a \in stored : \E b \in stored : a.image = b.image /\ a.sampler # b.sampler

(***************************************************************************)
(* Claims about the texture manager, checked under SpecLoader and, with    *)
(* the threads scheduled fairly, under SpecLoaderLive                      *)
(***************************************************************************)
\* C15: for a file path never requested before, get_texture returns the
\* fallback texture (and keeps returning it until a completion is drained);
\* once update() has drained the completion of the path, get_texture returns
\* the loaded, non-fallback handle; and exactly one read job was dispatched
\* for the path, however many times get_texture was called.
C15_FallbackThenLoaded ==
    /\ [](\A p \in FilePaths :
             /\ p \notin DOMAIN records => reads[p] = 0
             /\ p \in DOMAIN records =>
                   /\ reads[p] = 1
                   /\ loaded[p] = NoTexture => records[p].current = Fallback
                   /\ loaded[p] # NoTexture =>
                         /\ records[p].current = loaded[p]
                         /\ records[p].current # Fallback)
    /\ [][ got' # got =>
              /\ got'.path \in DOMAIN records'
              /\ got'.texture = records'[got'.path].current
              /\ got'.path \notin DOMAIN records => got'.texture = Fallback ]_vars

C15_Witness ==
    /\ got.path \in FilePaths
    /\ got.texture # Fallback
    /\ got.texture = loaded[got.path]
    /\ reads[got.path] = 1
    /\ Outstanding(got.path) = 0

\* C16: for every path, at most one load job is outstanding at any moment
\* (queued to a reader, queued to the loader, being uploaded, or waiting as
\* an undrained completion), after any sequence of get_texture,
\* create_dynamic_texture, update_dynamic_texture and update calls.
C16_OneJobPerPath == \A p \in Paths : Outstanding(p) <= 1

\* C17: a dispatched load job ends in one of two ways and in no third: its
\* completion is drained and the record's current becomes the loaded
\* handle, or a read/decode error is logged and the record stays at the
\* fallback; under fair scheduling no job remains outstanding forever.
C17_JobsEnd ==
    /\ [][ \A p \in Paths :
              Outstanding(p)' < Outstanding(p) =>
                 \/ /\ responses # <<>>
                    /\ Head(responses).path = p
                    /\ responses' = Tail(responses)
                    /\ Head(responses).handle # Fallback
                    /\ records'[p].current = Head(responses).handle
                    /\ loaded'[p] = Head(responses).handle
                 \/ /\ p \in failed'
                    /\ records' = records
                    /\ records[p].current = Fallback ]_vars
    /\ \A p \in Paths : (Outstanding(p) > 0) ~> (Outstanding(p) = 0)

C17_Witness ==
    /\ jobs = 3
    /\ \A p \in Paths : Outstanding(p) = 0
    /\ failed # {}
    /\ \E p \in FilePaths : loaded[p] # NoTexture
    /\ \E p \in MemoryPaths : loaded[p] # NoTexture

\* C18: all GPU work on the texture loading queue is submitted by the
\* loader thread alone: never are two threads inside a submission to that
\* queue (or using its command pool) at the same time.
C18_QueueSerialized == Cardinality(queue_users) <= 1

\* C19: if reading or decoding the file of path p fails, then in every
\* later state get_texture(p) returns the fallback texture and no further
\* read job for p is dispatched, while the reader thread goes on with the
\* jobs of other paths in its channel.
C19_FailedStaysFallback ==
    /\ [](\A p \in failed :
             /\ p \in DOMAIN records
             /\ records[p].current = Fallback
             /\ records[p].loading = NoTexture
             /\ reads[p] = 1
             /\ loaded[p] = NoTexture)
    /\ [][ \A id \in ReaderIds :
              (readers[id] # <<>> /\ failed' # failed) =>
                 \/ readers'[id] = readers[id]
                 \/ readers'[id] = Tail(readers[id]) ]_vars

C19_Witness ==
    \E p \in failed, q \in FilePaths \ failed :
       /\ p.n = 1
       /\ q.n = 3
       /\ loaded[q] # NoTexture
       /\ got = [path |-> p, texture |-> Fallback]
       /\ Outstanding(p) = 0

\* C20: when update() drains a completion Loaded(path, handle) for a path
\* that has a record, afterwards record.current = handle and record.loading
\* = Some(the value current had just before), the records of other paths
\* are unchanged; update() returns, without waiting, when no completion is
\* pending.
C20_UpdateSwaps ==
    /\ [][ /\ (main_pc = "update" /\ responses # <<>>
                 /\ responses' = Tail(responses)
                 /\ Head(responses).path \in DOMAIN records) =>
                 LET path == Head(responses).path IN
                 /\ DOMAIN records' = DOMAIN records
                 /\ records'[path].current = Head(responses).handle
                 /\ records'[path].loading = records[path].current
                 /\ \A q \in DOMAIN records \ {path} : records'[q] = records[q]
           /\ (main_pc = "update" /\ main_pc' # main_pc) =>
                 /\ responses = <<>>
                 /\ main_pc' = "idle"
                 /\ records' = records ]_vars
    /\ [](main_pc = "update" => ENABLED UpdateNext)

C20_Witness ==
    /\ main_pc = "update"
    /\ \E p \in DOMAIN records :
          /\ records[p].current = 2
          /\ records[p].loading = 1
          /\ loaded[p] = 2

\* C21: update_dynamic_texture(path, ..) called while the record's loading
\* slot is None (a load of the path is in flight), or for a path with no
\* record, sends no request to the loader and leaves every record
\* unchanged: the request is dropped, not queued.
C21_RefusedUpdateDropped ==
    [][ /\ (dyn_ret' # dyn_ret /\ dyn_ret' \in {"no_record", "in_progress"}) =>
              /\ requests' = requests
              /\ records' = records
              /\ jobs' = jobs
        /\ \A path \in Paths :
              (/\ UpdateDynamicTexture(path)
               /\ IF path \in DOMAIN records
                  THEN records[path].loading = NoTexture
                  ELSE TRUE) =>
                 /\ requests' = requests
                 /\ records' = records
                 /\ dyn_ret' \in {"no_record", "in_progress"} ]_vars

C21_Witness ==
    /\ dyn_ret = "in_progress"
    /\ jobs = 1
    /\ \E p \in MemoryPaths :
          /\ p \in DOMAIN records
          /\ records[p].loading = NoTexture
          /\ Outstanding(p) = 1
          /\ Len(requests) = 1

StaleIn(p, times) ==
    \/ p.vert.version # times[p.vert.path]
    \/ p.frag.version # times[p.frag.path]

\* C23: in a debug build, update() rebuilds a registered program if and only
\* if the modification time of its vertex or fragment shader file differs
\* from the version recorded at its last build or rebuild; a rebuilt program
\* records the current modification times, a program not rebuilt is left as
\* it was, so that right after update() no program differs from its files
\* and a following update() with no further write rebuilds nothing.
C23_ReloadOnChange ==
    [][ (debug_assertions /\ VulkanUpdate) =>
           /\ \A i \in DOMAIN programs :
                 /\ (i \in rebuilt') <=> StaleIn(programs[i], modified)
                 /\ i \notin rebuilt' => programs'[i] = programs[i]
                 /\ ~StaleIn(programs'[i], modified')
           /\ (\A i \in DOMAIN programs : ~StaleIn(programs[i], modified))
                 => (rebuilt' = {} /\ programs' = programs) ]_vars

C23_Witness ==
    /\ debug_assertions
    /\ Len(programs) = 2
    /\ rebuilt = {2}
    /\ programs[2].vert.version = 0
    /\ programs[2].frag.version > 0
    /\ programs[1].vert.version > 0
    /\ \A i \in DOMAIN programs : ~StaleIn(programs[i], modified)

(***************************************************************************)
(* Claims about fonts, checked under SpecRaster and SpecFonts              *)
(***************************************************************************)
\* the cells of characters c and d in the atlas have a pixel in common
CellsOverlap(c, d) ==
    /\ c.src[1] < d.src[1] + d.uv[1]
    /\ d.src[1] < c.src[1] + c.uv[1]
    /\ c.src[2] < d.src[2] + d.uv[2]
    /\ d.src[2] < c.src[2] + c.uv[2]

AllPassHeightChecks ==
    \A i \in DOMAIN alphabet : ~FailsHeightChecks(glyphs[alphabet[i]])

\* C24: rasterize_font_to_image_file over an alphabet whose glyphs all pass
\* the height checks returns a charset with exactly one entry per distinct
\* requested character, and the atlas cells of two distinct characters do
\* not overlap.
C24_AtlasCharset ==
    (raster_pc # "idle" /\ AllPassHeightChecks) =>
        /\ raster_pc = "returned"
        /\ DOMAIN charset = {alphabet[i] : i \in DOMAIN alphabet}
        /\ \A c, d \in DOMAIN charset :
              c # d => ~CellsOverlap(charset[c], charset[d])

\* the squared distance of font i to the request, in exact arithmetic
ExactDistance(record, q) ==
    LET search == Embed(q.weight, q.style, q.size)
        target == Embed(record.weight, record.style, record.size)
    IN  (target[1] - search[1]) * (target[1] - search[1])
        + (target[2] - search[2]) * (target[2] - search[2])
        + (target[3] - search[3]) * (target[3] - search[3])

\* C25: match_font(family, weight, style, size) returns the index of a
\* registered font of that family whose distance to the request over
\* (size * 1000, weight, style code) is minimal among the registered fonts
\* of that family, the earliest registered one on ties; when no registered
\* font has that family it returns index 0.
C25_MatchMinimal ==
    matched.fonts > 0 =>
        LET family == {i \in 1..matched.fonts : registry[i].family = matched.family}
            best == matched.index + 1
        IN  IF family = {}
            THEN matched.index = 0
            ELSE /\ best \in family
                 /\ \A j \in family :
                       /\ ExactDistance(registry[best], matched)
                             <= ExactDistance(registry[j], matched)
                       /\ ExactDistance(registry[best], matched)
                             = ExactDistance(registry[j], matched) => best <= j

(***************************************************************************)
(* Claims about resizing, checked under SpecFrame and SpecFrameLive        *)
(***************************************************************************)
\* C26: when the present call reports SUBOPTIMAL or OUT_OF_DATE, present()
\* only sets the needs-resize flag: the swapchain, the render pass, the
\* framebuffers and the pipelines of the registered programs are the same
\* after present() as before it, and present() does not panic but returns.
C26_PresentOnlyFlags ==
    [][ \A r \in {"suboptimal", "out_of_date"} :
           (pc = "presenting" /\ PresentWith(r)) =>
              /\ need_resize'
              /\ pc' = "idle"
              /\ presents' = presents + 1
              /\ swapchain' = swapchain
              /\ render_pass' = render_pass
              /\ framebuffers' = framebuffers
              /\ programs' = programs
              /\ images' = images ]_vars

C26_Witness ==
    /\ pc = "idle"
    /\ need_resize
    /\ presents = 1
    /\ swapchain.handle = 0
    /\ Len(programs) > 0
    /\ \A i \in DOMAIN programs : programs[i].built = render_pass

\* the call of acquire_next_image takes a step other than waiting
AcquireCallStep ==
    \/ pc' # pc
    \/ need_resize' # need_resize
    \/ swapchain' # swapchain
    \/ images' # images

\* C27: if the needs-resize flag is set when acquire_next_image is called,
\* the call performs exactly one resize, clears the flag and returns the
\* retry outcome without acquiring an image and without changing the fence
\* associated with any image; the flag is only ever set between a present()
\* and the acquire that follows it, so no image is acquired from the old
\* swapchain after a present() that set it.
C27_ResizeOnFlag ==
    /\ [](need_resize => pc \in {"idle", "acquire"})
    /\ [][ (pc = "acquire" /\ need_resize /\ AcquireCallStep) =>
              /\ swapchain'.handle = swapchain.handle + 1
              /\ render_pass' = swapchain'.handle
              /\ ~need_resize'
              /\ acquired' = NoImage
              /\ pc' = "acquire"
              /\ chain' = chain
              /\ next_image' = next_image
              /\ \A c \in DOMAIN images' :
                    images'[c] = IF c \in DOMAIN images THEN images[c]
                                 ELSE NullFence ]_vars

C27_Witness ==
    /\ pc = "acquire"
    /\ ~need_resize
    /\ acquired = NoImage
    /\ result = "ok"
    /\ swapchain.handle = 1
    /\ presents = 1
    /\ \E c \in DOMAIN images : images[c] # NullFence

\* C28: the swapchain, the render pass and the framebuffers belong to the
\* same swapchain generation, and the framebuffer list, the image list of
\* the swapchain and the per-image fence table have the same length, after
\* any number of resizes, those that change the number of images included.
C28_GenerationConsistent ==
    /\ render_pass = swapchain.handle
    /\ framebuffers.render_pass = render_pass
    /\ framebuffers.len = swapchain.images
    /\ DOMAIN images = 0..(swapchain.images - 1)

C28_Witness ==
    /\ swapchain.handle = 2
    /\ swapchain.images = 3
    /\ presents > 0
    /\ images[2] = NullFence
    /\ \E c \in DOMAIN images : images[c] # NullFence

\* C29: every image index acquire_next_image returns, after any sequence of
\* resizes, is a valid index into command_buffers and command_pools and into
\* the per-frame arrays of every Uniform and Storage created earlier.
C29_IndexInBounds ==
    acquired # NoImage =>
        /\ acquired < command_buffers
        /\ \A i \in DOMAIN programs : acquired < programs[i].frames

\* fence k is signaled or is the fence of a submission the GPU has not
\* completed yet
SignaledOrPending(k) == signaled[k] \/ (\E s \in pending : s.fence = k)

RECURSIVE StoredValues(_)
StoredValues(k) ==
    IF k = 0 THEN <<>>
    ELSE StoredValues(k - 1) \o (IF ops[k].stored THEN ops[k].arg ELSE <<>>)

\* C32: take_and_update(f) writes only the GPU buffer of frame slot f and
\* leaves the buffers of the other frame slots unchanged; afterwards entries
\* [0, count) of buffer f are the values stored since the previous flush, in
\* the order they were stored, where count is the value returned.
C32_TakeWritesOneBuffer ==
    [][ (ret'.op = "take_and_update" /\ ops' = <<>> /\ taken' = ret'.value
         /\ (ops # <<>> \/ buffers' # buffers \/ ret.op # "take_and_update")) =>
           LET values == StoredValues(Len(ops))
               count == ret'.value
           IN  /\ count = Len(values)
               /\ count = cursor
               /\ \E f \in DOMAIN buffers :
                     /\ \A g \in DOMAIN buffers \ {f} : buffers'[g] = buffers[g]
                     /\ \A i \in 1..count : buffers'[f][i] = values[i] ]_vars

C32_Witness ==
    /\ ret = [op |-> "take_and_update", value |-> 2]
    /\ taken = 2
    /\ buffers[1][1] # buffers[1][2]
    /\ buffers[1][1] # DefaultValue
    /\ buffers[1][2] # DefaultValue
    /\ buffers[0][1] # buffers[1][1]
    /\ buffers[0][1] # DefaultValue

\* C33: extend(values) agrees with push: whenever cursor + len(values) <=
\* capacity, the case where the values exactly fill the remaining capacity
\* included, extend stores the values where pushing each in order would and
\* returns the index of the first one; when they do not fit it changes
\* neither the cursor nor the staging array.
C33_ExtendAgreesWithPush ==
    \A k \in 1..Len(ops) :
        ops[k].op = "extend" =>
            IF StoredBefore(k) + ops[k].count <= Len(collection)
            THEN /\ ops[k].stored
                 /\ ops[k].value = StoredBefore(k)
                 /\ \A i \in 1..ops[k].count :
                       collection[StoredBefore(k) + i] = ops[k].arg[i]
            ELSE ~ops[k].stored

(***************************************************************************)
(* Claims about descriptor sets, checked under SpecVariables               *)
(***************************************************************************)
\* descriptor set f of the Uniform and of the Storage layout refers to buffer f
DescriptorsMatchBuffers ==
    /\ DOMAIN sets = DOMAIN uniform_buffers
    /\ \A f \in DOMAIN sets : sets[f] = BufferHandle(f)
    /\ descriptors # <<>> => DOMAIN descriptors = DOMAIN buffers
    /\ \A f \in DOMAIN descriptors : descriptors[f] = BufferHandle(f)

\* C31: after construction of a Uniform or of a Storage layout, for every
\* frame index f descriptor set f refers to GPU buffer f, and no later push,
\* extend, take_and_update or update issues a descriptor write or changes
\* this association: only buffer contents change.
C31_DescriptorsFixed ==
    /\ []DescriptorsMatchBuffers
    /\ [][ (StoragePush \/ StorageExtend \/ StorageTake \/ UniformUpdate) =>
              /\ descriptor_writes' = descriptor_writes
              /\ sets' = sets
              /\ descriptors' = descriptors ]_vars

C31_Witness ==
    /\ descriptors # <<>>
    /\ descriptor_writes.storage = Cardinality(DOMAIN buffers)
    /\ taken = 1
    /\ buffers[1][1] # DefaultValue
    /\ uniform_buffers[1] # DefaultValue
    /\ Len(ops) = 1

(***************************************************************************)
(* Claims about the end of the worker threads, checked under SpecDrop      *)
(***************************************************************************)
AllStopped ==
    /\ \A id \in ReaderIds : reader_pc[id] = "stopped"
    /\ loader_pc = "stopped"

\* C37: a worker whose downstream send fails because the receiver was
\* dropped leaves its loop and terminates: a reader stops after a failed
\* send to the loader, the loader after a failed send of a completion, and
\* a stopped worker consumes no further job.
C37_FailedSendStops ==
    [][ /\ \A id \in ReaderIds :
              (/\ Reader(id)
               /\ readers[id] # <<>>
               /\ loader_pc = "stopped"
               /\ Head(readers[id]).path \notin failed') =>
                  reader_pc'[id] = "stopped"
        /\ (LoaderEnd /\ main_pc = "dropped") => loader_pc' = "stopped"
        /\ \A id \in ReaderIds :
              reader_pc[id] = "stopped" =>
                  reader_pc'[id] = "stopped" /\ readers'[id] = readers[id]
        /\ loader_pc = "stopped" =>
              /\ loader_pc' = "stopped"
              /\ loader_job' = NoJob
              /\ requests' = requests ]_vars

C37_Witness ==
    /\ loader_pc = "stopped"
    /\ next_handle = 1
    /\ \E id \in ReaderIds : reader_pc[id] = "stopped" /\ readers[id] # <<>>

\* C38: after the TexturesManager is dropped every reader thread and the
\* loader thread eventually terminate under fair scheduling, whatever jobs
\* were queued or in progress: no worker blocks forever on its channel.
C38_WorkersTerminate == (main_pc = "dropped") ~> AllStopped

C38_Witness ==
    /\ main_pc = "dropped"
    /\ AllStopped
    /\ next_handle = 2
    /\ failed # {}

(***************************************************************************)
(* Claims about records, handles and readers, checked under SpecLoader     *)
(***************************************************************************)
\* the record of path p is created or modified in this step
RecordChanged(p) ==
    /\ p \in DOMAIN records'
    /\ p \in DOMAIN records => records'[p] # records[p]

HandlesInUse ==
    {records[p].current : p \in DOMAIN records}
    \cup {records[p].loading : p \in DOMAIN records}
    \cup {requests[i].handle : i \in DOMAIN requests}
    \cup {responses[i].handle : i \in DOMAIN responses}
    \cup UNION {{readers[id][i].handle : i \in DOMAIN readers[id]} : id \in ReaderIds}

\* the handle the loader thread uploads the job in progress into
UploadTarget == LoaderHandle(loader_job, next_handle)

\* C35: the loader thread never uploads pixel data into a handle that is at
\* that moment the current texture of a record: the handle written is newly
\* created or was taken from a loading slot, and the fallback is never
\* written (a job that carries the fallback gets a newly created handle).
C35_UploadNeverIntoCurrent ==
    loader_job # NoJob =>
        /\ UploadTarget # Fallback
        /\ \A p \in DOMAIN records : records[p].current # UploadTarget
        /\ IF loader_job.handle = Fallback
           THEN UploadTarget \notin HandlesInUse
           ELSE UploadTarget = loader_job.handle

C35_Witness ==
    /\ loader_job # NoJob
    /\ loader_job.handle # Fallback
    /\ loader_job.path \in DOMAIN records
    /\ records[loader_job.path].current \notin {Fallback, loader_job.handle}

\* the read jobs dispatched so far
RECURSIVE ReadsOf(_, _)
ReadsOf(rd, S) ==
    IF S = {} THEN 0
    ELSE LET p == CHOOSE x \in S : TRUE IN rd[p] + ReadsOf(rd, S \ {p})

\* C36: read jobs are distributed round-robin over the N = 2 readers: the
\* i-th read job dispatched (counting from 0) goes to reader i mod N, so the
\* first goes to reader 0, and a get_texture call that dispatches nothing
\* does not advance the reader index.
C36_RoundRobin ==
    [][ LET i == ReadsOf(reads, Paths)
            N == Cardinality(ReaderIds)
        IN  IF ReadsOf(reads', Paths) = i + 1
            THEN /\ Len(readers'[i % N]) = Len(readers[i % N]) + 1
                 /\ \A id \in ReaderIds \ {i % N} : readers'[id] = readers[id]
                 /\ readers_index' = i % N
            ELSE readers_index' = readers_index ]_vars

C36_Witness ==
    /\ ReadsOf(reads, Paths) = 3
    /\ Len(readers[0]) = 2
    /\ Len(readers[1]) = 1
    /\ \E p \in DOMAIN records : StartsWithMemory(p)

\* C39: every create_dynamic_texture call returns a path that no earlier
\* create_dynamic_texture call returned, so it never replaces the record of
\* an existing dynamic texture, whatever get_texture calls (paths starting
\* with "memory:" included) and update calls were made in between.
C39_DynamicPathsFresh ==
    [][ DropCreateDynamicTexture =>
           DynamicPath(records) \notin dynamic_paths ]_vars

(***************************************************************************)
(* Claim about the bounds of the glyph atlas, checked under SpecRaster     *)
(***************************************************************************)
\* the cell lies inside the AtlasSize x AtlasSize atlas
CellInsideAtlas(cell) ==
    /\ cell.src[1] + cell.uv[1] <= AtlasSize
    /\ cell.src[2] < AtlasSize
    /\ cell.src[2] + cell.uv[2] <= AtlasSize

\* the pixels of the glyph lie inside the cell recorded for it
GlyphInsideCell(glyph, cell) ==
    /\ glyph.width <= cell.uv[1]
    /\ (Baseline - (glyph.height + glyph.ymin)) + glyph.height <= cell.uv[2]

\* C40: for every alphabet and font, each pixel written and each cell
\* recorded lies inside the fixed atlas: no write is out of bounds, the row
\* offset never advances so far that a glyph row starts at or beyond the
\* atlas height, and the pixels of a glyph stay inside its own cell.
C40_AtlasBounds ==
    raster_pc # "idle" =>
        /\ raster_pc = "returned"
        /\ \A c \in DOMAIN charset :
              /\ CellInsideAtlas(charset[c])
              /\ GlyphInsideCell(glyphs[c], charset[c])

====
